---- MODULE Spec2Model ----
(***************************************************************************)
(* Duplicate Reviewer: the cache manager, the scan engine and the          *)
(* orchestrator that sequences cache hits, scans and cancellation.         *)
(* Strings are sequences of one-character strings, so that prefix tests,   *)
(* title normalisation and path handling are computed, not assumed.        *)
(***************************************************************************)
EXTENDS Integers, Sequences, FiniteSets, TLC

(***************************************************************************)
(* Characters and strings                                                  *)
(***************************************************************************)
UpperSeq == <<"A","B","C","D","E","F","G","H","I","J","K","L","M",
              "N","O","P","Q","R","S","T","U","V","W","X","Y","Z">>

LowerSeq == <<"a","b","c","d","e","f","g","h","i","j","k","l","m",
              "n","o","p","q","r","s","t","u","v","w","x","y","z">>

Upper == {UpperSeq[i] : i \in 1..26}

Lower == {LowerSeq[i] : i \in 1..26}

Digit == {"0","1","2","3","4","5","6","7","8","9"}

\* \w of the regular expressions
IsWordChar(c) == c \in Upper \cup Lower \cup Digit \cup {"_"}

\* \s of the regular expressions (the model's strings hold no other blank)
IsSpace(c) == c = " "

ToLowerChar(c) == IF c \in Upper
                  THEN LowerSeq[CHOOSE i \in 1..26 : UpperSeq[i] = c]
                  ELSE c

toLowerCase(s) == [i \in 1..Len(s) |-> ToLowerChar(s[i])]

startsWith(s, p) == Len(p) <= Len(s) /\ SubSeq(s, 1, Len(p)) = p

\* String.prototype.includes
includes(s, sub) ==
    \E i \in 1..(Len(s) + 1) :
        i + Len(sub) - 1 <= Len(s) /\ SubSeq(s, i, i + Len(sub) - 1) = sub

DropFirst(s, k) == SubSeq(s, k + 1, Len(s))

\* number of consecutive characters of class C starting at position i
RECURSIVE RunLen(_, _, _)
RunLen(s, i, C) == IF i <= Len(s) /\ s[i] \in C THEN 1 + RunLen(s, i + 1, C) ELSE 0

\* split(/\s+/).filter(Boolean): the non-empty maximal runs of non-blanks
RECURSIVE SplitWords(_, _)
SplitWords(s, cur) ==
    IF s = <<>> THEN (IF cur = <<>> THEN <<>> ELSE <<cur>>)
    ELSE IF IsSpace(Head(s))
         THEN (IF cur = <<>> THEN <<>> ELSE <<cur>>) \o SplitWords(Tail(s), <<>>)
         ELSE SplitWords(Tail(s), Append(cur, Head(s)))

RECURSIVE JoinWords(_)
JoinWords(ws) == IF ws = <<>> THEN <<>>
                 ELSE IF Len(ws) = 1 THEN ws[1]
                 ELSE ws[1] \o <<" ">> \o JoinWords(Tail(ws))

\* split("/")
RECURSIVE SplitSlash(_, _)
SplitSlash(s, cur) ==
    IF s = <<>> THEN <<cur>>
    ELSE IF Head(s) = "/" THEN <<cur>> \o SplitSlash(Tail(s), <<>>)
         ELSE SplitSlash(Tail(s), Append(cur, Head(s)))

Range(s) == {s[i] : i \in 1..Len(s)}

\* a Set<T> in insertion order: the sequence without its later repeats
RECURSIVE Distinct(_)
Distinct(s) == IF s = <<>> THEN <<>>
               ELSE LET d == Distinct(SubSeq(s, 1, Len(s) - 1))
                        x == s[Len(s)]
                    IN IF x \in Range(d) THEN d ELSE Append(d, x)

\* the characters of the model's strings in the order of their code units
CodeUnits == <<" ", "-", ".", "/", "0","1","2","3","4","5","6","7","8","9">>
                 \o UpperSeq \o <<"[", "]", "_">> \o LowerSeq \o <<"|">>

CodeOf(c) == CHOOSE i \in 1..Len(CodeUnits) : CodeUnits[i] = c

\* a < b as Array.prototype.sort() compares strings: by code units, a proper
\* prefix first
RECURSIVE StringLess(_, _)
StringLess(a, b) ==
    IF b = <<>> THEN FALSE
    ELSE IF a = <<>> THEN TRUE
    ELSE IF Head(a) = Head(b) THEN StringLess(Tail(a), Tail(b))
    ELSE CodeOf(Head(a)) < CodeOf(Head(b))

RECURSIVE InsertString(_, _)
InsertString(sorted, x) ==
    IF sorted = <<>> THEN <<x>>
    ELSE IF StringLess(x, Head(sorted)) THEN <<x>> \o sorted
    ELSE <<Head(sorted)>> \o InsertString(Tail(sorted), x)

\* [...paths].sort()
RECURSIVE SortStrings(_)
SortStrings(s) == IF s = <<>> THEN <<>>
                  ELSE InsertString(SortStrings(SubSeq(s, 1, Len(s) - 1)), s[Len(s)])

\* join("\0"): the separator is a character no path holds
RECURSIVE JoinNul(_)
JoinNul(ss) == IF ss = <<>> THEN <<>>
               ELSE IF Len(ss) = 1 THEN ss[1]
               ELSE ss[1] \o <<"NUL">> \o JoinNul(Tail(ss))

(***************************************************************************)
(* Title normaliser                                                        *)
(***************************************************************************)
\* replace(/\.md$/i, "")
StripMdExtension(s) ==
    IF Len(s) >= 3 /\ s[Len(s) - 2] = "." /\ s[Len(s) - 1] \in {"m", "M"}
                   /\ s[Len(s)] \in {"d", "D"}
    THEN SubSeq(s, 1, Len(s) - 3) ELSE s

\* replace(/^\[?[A-Z]{2,4}\d+\]?\s*/, "")
StripCodePrefix(s) ==
    LET start == IF Len(s) >= 1 /\ s[1] = "[" THEN 2 ELSE 1
        nU    == RunLen(s, start, Upper)
        nD    == RunLen(s, start + nU, Digit)
        p1    == start + nU + nD
        p2    == IF p1 <= Len(s) /\ s[p1] = "]" THEN p1 + 1 ELSE p1
        p3    == p2 + RunLen(s, p2, {" "})
    IN IF nU >= 2 /\ nU <= 4 /\ nD >= 1 THEN DropFirst(s, p3 - 1) ELSE s

\* replace(/^\d+\.\d+\s*/, "")
StripDecimalPrefix(s) ==
    LET n1 == RunLen(s, 1, Digit)
        n2 == RunLen(s, n1 + 2, Digit)
        p  == n1 + 2 + n2
        p3 == p + RunLen(s, p, {" "})
    IN IF n1 >= 1 /\ n1 + 1 <= Len(s) /\ s[n1 + 1] = "." /\ n2 >= 1
       THEN DropFirst(s, p3 - 1) ELSE s

\* replace(/[^\w\s]/g, "")
StripPunctuation(s) == SelectSeq(s, LAMBDA c : IsWordChar(c) \/ IsSpace(c))

\* the decimal rule applied before the index-code rule
normalizeTitleDecimalFirst(title) ==
    JoinWords(SplitWords(
        StripPunctuation(toLowerCase(
            StripCodePrefix(StripDecimalPrefix(StripMdExtension(title))))), <<>>))

normalizeTitleKeepCase(title) ==
    JoinWords(SplitWords(
        StripPunctuation(
            StripDecimalPrefix(StripCodePrefix(StripMdExtension(title)))), <<>>))

normalizeTitle(title) ==
    JoinWords(SplitWords(
        StripPunctuation(toLowerCase(
            StripDecimalPrefix(StripCodePrefix(StripMdExtension(title))))), <<>>))

\* the word set of a file name, in insertion order
wordSet(basename) == Distinct(SplitWords(normalizeTitle(basename), <<>>))

titleSimilarityOverFirst(title1, title2) ==
    LET words1 == Range(SplitWords(normalizeTitle(title1), <<>>))
        words2 == Range(SplitWords(normalizeTitle(title2), <<>>))
    IN IF words1 = {} \/ words2 = {} THEN [num |-> 0, den |-> 1]
       ELSE [num |-> Cardinality(words1 \cap words2),
             den |-> Cardinality(words1)]

\* intersection.size / union.size without the test for an empty word set
titleSimilarityUnguarded(title1, title2) ==
    LET words1 == Range(SplitWords(normalizeTitle(title1), <<>>))
        words2 == Range(SplitWords(normalizeTitle(title2), <<>>))
    IN [num |-> Cardinality(words1 \cap words2),
        den |-> Cardinality(words1 \cup words2)]

\* titleSimilarity as the fraction num/den, 0/1 when either side has no word
titleSimilarity(title1, title2) ==
    LET words1 == Range(SplitWords(normalizeTitle(title1), <<>>))
        words2 == Range(SplitWords(normalizeTitle(title2), <<>>))
    IN IF words1 = {} \/ words2 = {} THEN [num |-> 0, den |-> 1]
       ELSE [num |-> Cardinality(words1 \cap words2),
             den |-> Cardinality(words1 \cup words2)]

(***************************************************************************)
(* Bounds of the model                                                     *)
(***************************************************************************)
\* file handles the vault can hold (two documents exist initially)
MaxFiles == 3

\* modification times range over 1..MaxMtime; a change stamps MaxMtime
MaxMtime == 2

\* cache writes (each takes one tick of the clock behind Date.now())
MaxClock == 2

\* what comes from outside in one behaviour: vault change events, settings
\* changes, scan requests, the unload
MaxEvents == 3

\* changes made in the settings tab
MaxSettingChanges == 1

\* scan requests (each gets its own AbortController)
MaxScans == 3

\* requests whose orchestrator has not finished, at any one time
MaxPending == 2

\* groups in a cache entry read from data.json
MaxStored == 2

\* groups dismissed in one session
MaxDismissals == 2

\* pieces a title is put together from
MaxTokens == 3

\* calls of the three save functions in one session
MaxSaves == 3

\* pieces each of the two texts of a comparison is put together from
MaxSimTokens == 2

\* candidates in a list handed to groupDuplicates
MaxCandidates == 3

(***************************************************************************)
(* Paths, folders and settings values of the model                         *)
(***************************************************************************)
RootPath == <<"/">>

FolderA == <<"a">>

Scopes == {RootPath, FolderA}

PathAN == <<"a","/","n",".","m","d">>

PathAN1 == <<"a","/","n"," ","1",".","m","d">>

PathABN == <<"a","b","/","n",".","m","d">>

PathAM == <<"a","/","m",".","m","d">>

Paths == {PathAN, PathAN1, PathABN, PathAM}

\* the paths a created or renamed document gets
NewPaths == {PathAM}

\* three notes at the top of a vault
PathNotes == <<"N","o","t","e","s",".","m","d">>

PathNotes1 == <<"N","o","t","e","s"," ","1",".","m","d">>

PathUntitled == <<"U","n","t","i","t","l","e","d",".","m","d">>

NotePaths == {PathNotes, PathNotes1, PathUntitled}

\* a document in another folder whose title shares both words with "n 1"
PathABN1 == <<"a","b","/","n"," ","1",".","m","d">>

\* a document whose title normalizes to nothing
PathDash == <<"a","/","-",".","m","d">>

\* the paths of the vaults that titles are compared in
TitlePaths == Paths \cup NotePaths \cup {PathABN1, PathDash}

NoPath == <<>>

\* slider positions of the title threshold, in percent
TitleThresholds == {50, 80}

\* slider positions of the content threshold, in percent
ContentThresholds == {30, 60}

ContentCharValues == {500, 1000}

IgnoredFolders == << <<".","g","i","t">> >>

DEFAULT_SETTINGS ==
    [titleSimilarityThreshold |-> 80, enableContentSimilarity |-> FALSE,
     contentSimilarityThreshold |-> 60, contentCharsToAnalyze |-> 1000,
     ignoredFolders |-> IgnoredFolders]

\* the settings the plugin starts with: the defaults, content checking on
InitSettings == [DEFAULT_SETTINGS EXCEPT !.enableContentSimilarity = TRUE]

Handles == 1..MaxFiles

ScanIds == 1..MaxScans

\* a request not made yet
IdleScan ==
    [pc |-> "idle", kind |-> "none", scope |-> NoPath, files |-> <<>>, i |-> 0,
     wordSets |-> <<>>, duplicates |-> <<>>, refine |-> FALSE,
     titleThreshold |-> 0, contentThreshold |-> 0, maxChars |-> 0,
     candidates |-> <<>>, refined |-> <<>>, groups |-> <<>>, returned |-> 0,
     events |-> <<>>, reads |-> {}]

\* the pane before any review: no folder, no groups
\* no progress bar in the pane (progressLabel and progressBarFill are null)
NoProgress == [stage |-> "none", current |-> 0, total |-> 0, scan |-> 0]

InitView == [groups |-> <<>>, currentFolder |-> <<>>, currentGroupIndex |-> 0,
             scanInProgress |-> FALSE, resultFromCache |-> FALSE,
             progress |-> NoProgress]

NoBuild == [titleThreshold |-> 0, refine |-> FALSE, refined |-> FALSE,
            contentThreshold |-> 0, maxChars |-> 0]

\* during: requests whose scan was in flight when a change inside its scope
\* arrived; built: the configuration values the scan behind each entry used;
\* builtDuring: entries stored by such a scan; changedAfter: entries stored
\* before a change inside their scope was recorded; dismissed: the path sets
\* handed to dismissGroup since the record was last cleared; patterns: the
\* pattern reviews so far; settingAfter: entries stored before a setting of
\* the similarity section was changed
InitHist == [during |-> {}, built |-> [s \in Scopes |-> NoBuild],
             builtDuring |-> {}, changedAfter |-> {}, dismissed |-> {}, patterns |-> 0,
             settingAfter |-> {}]

\* no duplicate-exclusion key in the frontmatter
NoValue == [kind |-> "null"]

NoFile == [path |-> NoPath, mtime |-> 0, alive |-> FALSE]

InitVault ==
    [h \in Handles |->
        IF h = 1 THEN [path |-> PathAN, mtime |-> 1, alive |-> TRUE]
        ELSE IF h = 2 THEN [path |-> PathAN1, mtime |-> 2, alive |-> TRUE]
        ELSE NoFile]

VARIABLES
    vault,          \* handle -> the document behind it (path, mtime, alive)
    settings,       \* plugin.settings
    entries,        \* CacheManager.entries: scope -> CacheEntry or NoEntry
    dirtyPaths,     \* CacheManager.dirtyPaths
    now,            \* the clock read by Date.now()
    last,           \* the latest CacheManager call and what it returned
    evCount,        \* vault change events so far
    setCount,       \* settings changes so far
    scans,          \* scan request -> where its scan and its orchestrator stand
    scanControllers,\* plugin.scanControllers: scope -> scan request or 0
    aborted,        \* the requests whose AbortController was aborted
    view,           \* the review pane
    persisted,      \* the cache section of data.json
    loaded,         \* the plugin is loaded
    hist,           \* history: what each stored entry was built from
    dismissedGroups,\* plugin.dismissedGroups: the sorted path lists dismissed
    dismissedSet,   \* plugin.dismissedSet: their keys
    frontmatter,    \* handle -> the duplicate-exclusion value of its frontmatter
    dataJson,       \* data.json as loadData returns it
    saves           \* save call -> where it stands and the data it holds

dismissVars == <<dismissedGroups, dismissedSet>>

saveVars == <<dataJson, saves>>

orchVars == <<scans, scanControllers, aborted, view, persisted, loaded, hist,
              dismissVars, frontmatter>>

vars == <<vault, settings, entries, dirtyPaths, now, last, evCount, setCount,
          scans, scanControllers, aborted, view, persisted, loaded, hist,
          dismissedGroups, dismissedSet, frontmatter, dataJson, saves>>

(***************************************************************************)
(* Host document store                                                     *)
(***************************************************************************)
\* vault.getMarkdownFiles(): the live documents, in handle order
getMarkdownFiles == SelectSeq([h \in 1..MaxFiles |-> h], LAMBDA h : vault[h].alive)

\* vault.getFileByPath: the live document at that path, or 0
getFileByPath(path) ==
    IF \E h \in Handles : vault[h].alive /\ vault[h].path = path
    THEN CHOOSE h \in Handles : vault[h].alive /\ vault[h].path = path
    ELSE 0

\* position of the last occurrence of c in s, or 0
LastIndexOf(s, c) ==
    IF \E i \in 1..Len(s) : s[i] = c
    THEN CHOOSE i \in 1..Len(s) : s[i] = c /\ \A j \in (i + 1)..Len(s) : s[j] # c
    ELSE 0

FileName(path) == LET segs == SplitSlash(path, <<>>) IN segs[Len(segs)]

\* TFile.basename: the file name without its extension
BasenameOf(path) ==
    LET name == FileName(path)
        dot  == LastIndexOf(name, ".")
    IN IF dot > 1 THEN SubSeq(name, 1, dot - 1) ELSE name

\* TFile.extension
ExtensionOf(path) ==
    LET name == FileName(path)
        dot  == LastIndexOf(name, ".")
    IN IF dot > 1 THEN DropFirst(name, dot) ELSE <<>>

\* the base names, normalised titles and word sets of the model's paths,
\* computed once
BasenameTable == [p \in TitlePaths \cup {NoPath} |-> BasenameOf(p)]

NormTitleTable ==
    [p \in TitlePaths \cup {NoPath} |-> normalizeTitle(BasenameOf(p))]

WordSetTable == [p \in TitlePaths \cup {NoPath} |-> wordSet(BasenameOf(p))]

Basename(f) == BasenameTable[vault[f].path]

\* normalizeTitle(f.basename)
NormTitle(f) == NormTitleTable[vault[f].path]

\* wordSet(f.basename)
WordsOf(f) == WordSetTable[vault[f].path]

(***************************************************************************)
(* Scanner                                                                 *)
(***************************************************************************)
shouldSkipPath(path, ignoredFolders) ==
    \/ \E k \in 1..Len(ignoredFolders) : includes(path, ignoredFolders[k])
    \/ LET parts == SplitSlash(path, <<>>)
       IN \E k \in 1..Len(parts) : startsWith(parts[k], <<".">>)

\* shouldSkipPath and the folder test of the model's paths, computed once
SkipTable == [p \in TitlePaths |-> shouldSkipPath(p, IgnoredFolders)]

UnderTable == [p \in Paths, sc \in Scopes |-> startsWith(p, sc \o <<"/">>)]

collectMarkdownFiles(folderPath, ignoredFolders) ==
    SelectSeq(getMarkdownFiles,
              LAMBDA f : /\ (folderPath = RootPath \/ UnderTable[vault[f].path, folderPath])
                         /\ IF ignoredFolders = IgnoredFolders
                            THEN ~SkipTable[vault[f].path]
                            ELSE ~shouldSkipPath(vault[f].path, ignoredFolders))

\* index.get(w): the already processed positions whose word set holds w
Bucket(wordSets, w) ==
    SelectSeq([j \in 1..Len(wordSets) |-> j], LAMBDA j : w \in Range(wordSets[j]))

RECURSIVE ConcatBuckets(_, _)
ConcatBuckets(wordSets, words) ==
    IF words = <<>> THEN <<>>
    ELSE Bucket(wordSets, Head(words)) \o ConcatBuckets(wordSets, Tail(words))

SimAbove(num, den, threshold) ==
    IF den = 0 THEN 0 > threshold ELSE num * 100 > threshold * den

\* sim >= threshold, with sim = num/den (0 when den = 0) and threshold in percent
SimAtLeast(num, den, threshold) ==
    IF den = 0 THEN 0 >= threshold ELSE num * 100 >= threshold * den

\* b.titleSimilarity - a.titleSimilarity > 0
SimLess(a, b) == a.num * b.den < b.num * a.den

\* the candidate positions taken bucket by bucket, not as a set
TitleStepNoSet(files, i, wordSets, titleThreshold) ==
    LET words == WordsOf(files[i])
        candidateIndices == ConcatBuckets(wordSets, words)
        Score(j) ==
            LET otherWords == wordSets[j]
                inter == Cardinality(Range(words) \cap Range(otherWords))
                union == Len(words) + Len(otherWords) - inter
            IN [file1 |-> files[j], file2 |-> files[i], num |-> inter, den |-> union]
        scored == [k \in 1..Len(candidateIndices) |-> Score(candidateIndices[k])]
    IN SelectSeq(scored, LAMBDA c : SimAtLeast(c.num, c.den, titleThreshold))

\* the candidate positions taken from the bucket of the last word only
TitleStepLastBucket(files, i, wordSets, titleThreshold) ==
    LET words == WordsOf(files[i])
        candidateIndices ==
            IF words = <<>> THEN <<>> ELSE Bucket(wordSets, words[Len(words)])
        Score(j) ==
            LET otherWords == wordSets[j]
                inter == Cardinality(Range(words) \cap Range(otherWords))
                union == Len(words) + Len(otherWords) - inter
            IN [file1 |-> files[j], file2 |-> files[i], num |-> inter, den |-> union]
        scored == [k \in 1..Len(candidateIndices) |-> Score(candidateIndices[k])]
    IN SelectSeq(scored, LAMBDA c : SimAtLeast(c.num, c.den, titleThreshold))

\* one iteration of the loop of findTitleDuplicates: the pairs file i forms
\* with the files processed before it (wordSets holds their word sets)
TitleStep(files, i, wordSets, titleThreshold) ==
    LET words == WordsOf(files[i])
        candidateIndices == Distinct(ConcatBuckets(wordSets, words))
        Score(j) ==
            LET otherWords == wordSets[j]
                inter == Cardinality(Range(words) \cap Range(otherWords))
                union == Len(words) + Len(otherWords) - inter
            IN [file1 |-> files[j], file2 |-> files[i], num |-> inter, den |-> union]
        scored == [k \in 1..Len(candidateIndices) |-> Score(candidateIndices[k])]
    IN SelectSeq(scored, LAMBDA c : SimAtLeast(c.num, c.den, titleThreshold))

\* Array.prototype.sort is stable: x goes before the first element that
\* the comparison puts strictly after it
RECURSIVE InsertCandidate(_, _)
InsertCandidate(sorted, x) ==
    IF sorted = <<>> THEN <<x>>
    ELSE IF SimLess(Head(sorted), x) THEN <<x>> \o sorted
         ELSE <<Head(sorted)>> \o InsertCandidate(Tail(sorted), x)

\* duplicates.sort((a, b) => b.titleSimilarity - a.titleSimilarity)
RECURSIVE SortCandidates(_)
SortCandidates(s) ==
    IF s = <<>> THEN <<>>
    ELSE InsertCandidate(SortCandidates(SubSeq(s, 1, Len(s) - 1)), s[Len(s)])

\* the loop of findTitleDuplicates from position i on, never cancelled
RECURSIVE TitleLoop(_, _, _, _, _)
TitleLoop(files, i, wordSets, duplicates, titleThreshold) ==
    IF i > Len(files) THEN duplicates
    ELSE TitleLoop(files, i + 1,
                   Append(wordSets, WordsOf(files[i])),
                   duplicates \o TitleStep(files, i, wordSets, titleThreshold),
                   titleThreshold)

findTitleDuplicates(files, titleThreshold) ==
    SortCandidates(TitleLoop(files, 1, <<>>, <<>>, titleThreshold))

\* findTitleDuplicates of scanner/index.ts: every pair i < j is scored with
\* titleSimilarity of the two basenames, in the order of the two loops
findTitleDuplicatesAllPairs(files, titleThreshold) ==
    LET n == Len(files)
        Pair(k) ==
            LET i == ((k - 1) \div n) + 1
                j == ((k - 1) % n) + 1
                tSim == titleSimilarity(Basename(files[i]), Basename(files[j]))
            IN [file1 |-> files[i], file2 |-> files[j], num |-> tSim.num,
                den |-> tSim.den, i |-> i, j |-> j]
        pairs == [k \in 1..(n * n) |-> Pair(k)]
        kept == SelectSeq(pairs, LAMBDA c : c.i < c.j
                                   /\ SimAtLeast(c.num, c.den, titleThreshold))
    IN SortCandidates([k \in 1..Len(kept) |->
                          [file1 |-> kept[k].file1, file2 |-> kept[k].file2,
                           num |-> kept[k].num, den |-> kept[k].den]])

AddFileAlways(fs, f) == Append(fs, f)

AddFile(fs, f) ==
    IF \E k \in 1..Len(fs) : vault[fs[k]].path = vault[f].path THEN fs ELSE Append(fs, f)

AddTitle(ts, t) == IF t \in Range(ts) THEN ts ELSE Append(ts, t)

\* the groups keyed by the second document of each candidate
RECURSIVE GroupLoopByFile2(_, _)
GroupLoopByFile2(groups, cs) ==
    IF cs = <<>> THEN groups
    ELSE LET c == Head(cs)
             normTitle == NormTitle(c.file2)
             known == \E k \in 1..Len(groups) : groups[k].normalizedTitle = normTitle
             gs == IF known THEN groups
                   ELSE Append(groups, [normalizedTitle |-> normTitle,
                                        originalTitles |-> <<>>,
                                        files |-> <<>>, candidates |-> <<>>])
             at == CHOOSE k \in 1..Len(gs) : gs[k].normalizedTitle = normTitle
             g == gs[at]
             g2 == [normalizedTitle |-> normTitle,
                    originalTitles |->
                        AddTitle(AddTitle(g.originalTitles, Basename(c.file1)),
                                 Basename(c.file2)),
                    files |-> AddFile(AddFile(g.files, c.file1), c.file2),
                    candidates |-> Append(g.candidates, c)]
         IN GroupLoopByFile2([gs EXCEPT ![at] = g2], Tail(cs))

\* the groups in insertion order of their keys, after the candidates cs
RECURSIVE GroupLoop(_, _)
GroupLoop(groups, cs) ==
    IF cs = <<>> THEN groups
    ELSE LET c == Head(cs)
             normTitle == NormTitle(c.file1)
             known == \E k \in 1..Len(groups) : groups[k].normalizedTitle = normTitle
             gs == IF known THEN groups
                   ELSE Append(groups, [normalizedTitle |-> normTitle,
                                        originalTitles |-> <<>>,
                                        files |-> <<>>, candidates |-> <<>>])
             at == CHOOSE k \in 1..Len(gs) : gs[k].normalizedTitle = normTitle
             g == gs[at]
             g2 == [normalizedTitle |-> normTitle,
                    originalTitles |->
                        AddTitle(AddTitle(g.originalTitles, Basename(c.file1)),
                                 Basename(c.file2)),
                    files |-> AddFile(AddFile(g.files, c.file1), c.file2),
                    candidates |-> Append(g.candidates, c)]
         IN GroupLoop([gs EXCEPT ![at] = g2], Tail(cs))

RECURSIVE InsertGroup(_, _)
InsertGroup(sorted, x) ==
    IF sorted = <<>> THEN <<x>>
    ELSE IF Len(Head(sorted).files) < Len(x.files) THEN <<x>> \o sorted
         ELSE <<Head(sorted)>> \o InsertGroup(Tail(sorted), x)

\* groups.sort((a, b) => b.files.length - a.files.length)
RECURSIVE SortGroups(_)
SortGroups(s) ==
    IF s = <<>> THEN <<>>
    ELSE InsertGroup(SortGroups(SubSeq(s, 1, Len(s) - 1)), s[Len(s)])

groupDuplicates(candidates) == SortGroups(GroupLoop(<<>>, candidates))

(***************************************************************************)
(* Cache manager                                                           *)
(***************************************************************************)
NoEntry == [folderPath |-> NoPath]

\* a map of entries without any entry
NoEntries == [s \in Scopes |-> NoEntry]

\* data.json before anything was saved: loadData returns null
NoData ==
    [file |-> FALSE,
     settings |-> [kind |-> "absent", value |-> DEFAULT_SETTINGS],
     dismissedGroups |-> [kind |-> "absent", value |-> <<>>],
     duplicateCache |-> [kind |-> "absent", value |-> NoEntries]]

SaveIds == 1..MaxSaves

\* a save call not made yet
IdleSave == [pc |-> "idle", writer |-> "none", data |-> NoData]

NoSaves == [id \in SaveIds |-> IdleSave]

Max(a, b) == IF a > b THEN a ELSE b

\* let maxMtime = 0; for (const f of files) if (f.stat.mtime > maxMtime) ...
RECURSIVE MaxMtimeOf(_)
MaxMtimeOf(files) ==
    IF files = <<>> THEN 0
    ELSE Max(MaxMtimeOf(SubSeq(files, 1, Len(files) - 1)), vault[files[Len(files)]].mtime)

\* DirtyHit with the "/" left off the prefix
DirtyHitNoSlash(entry) ==
    /\ dirtyPaths # {}
    /\ \/ entry.folderPath = RootPath
       \/ \E dirtyPath \in dirtyPaths : startsWith(dirtyPath, entry.folderPath)

\* a dirty path falls inside the entry's folder
DirtyHit(entry) ==
    /\ dirtyPaths # {}
    /\ \/ entry.folderPath = RootPath
       \/ \E dirtyPath \in dirtyPaths : UnderTable[dirtyPath, entry.folderPath]

\* SettingsMatch without the comparison of contentChars
SettingsMatchNoChars(entry, st) ==
    /\ entry.settings.titleThreshold = st.titleSimilarityThreshold
    /\ entry.settings.enableContent = st.enableContentSimilarity
    /\ entry.settings.contentThreshold = st.contentSimilarityThreshold

SettingsMatch(entry, st) ==
    /\ entry.settings.titleThreshold = st.titleSimilarityThreshold
    /\ entry.settings.enableContent = st.enableContentSimilarity
    /\ entry.settings.contentThreshold = st.contentSimilarityThreshold
    /\ entry.settings.contentChars = st.contentCharsToAnalyze

\* isValid without the dirty-path check
isValidNoDirty(entry, currentFiles, st) ==
    /\ Len(currentFiles) = entry.fileCount
    /\ MaxMtimeOf(currentFiles) = entry.maxMtime
    /\ SettingsMatch(entry, st)

isValid(entry, currentFiles, st) ==
    /\ ~DirtyHit(entry)
    /\ Len(currentFiles) = entry.fileCount
    /\ MaxMtimeOf(currentFiles) = entry.maxMtime
    /\ SettingsMatch(entry, st)

serializeGroup(g) ==
    [normalizedTitle |-> g.normalizedTitle,
     originalTitles |-> g.originalTitles,
     filePaths |-> [k \in 1..Len(g.files) |-> vault[g.files[k]].path]]

\* the entry that put stores under folderPath
putEntry(folderPath, files, groups, st) ==
    [folderPath |-> folderPath,
     scanTimestamp |-> now,
     fileCount |-> Len(files),
     maxMtime |-> MaxMtimeOf(files),
     groups |-> [k \in 1..Len(groups) |-> serializeGroup(groups[k])],
     settings |-> [titleThreshold |-> st.titleSimilarityThreshold,
                   enableContent |-> st.enableContentSimilarity,
                   contentThreshold |-> st.contentSimilarityThreshold,
                   contentChars |-> st.contentCharsToAnalyze]]

\* the stored paths that still resolve to a live document
ResolvePaths(filePaths) ==
    LET found == [k \in 1..Len(filePaths) |-> getFileByPath(filePaths[k])]
    IN SelectSeq(found, LAMBDA f : f # 0)

deserializeGroup(sg) ==
    [normalizedTitle |-> sg.normalizedTitle,
     originalTitles |-> sg.originalTitles,
     files |-> ResolvePaths(sg.filePaths),
     candidates |-> <<>>]

\* deserialize dropping the groups of two as well
deserializeOffByOne(entry) ==
    SelectSeq([k \in 1..Len(entry.groups) |-> deserializeGroup(entry.groups[k])],
              LAMBDA g : Len(g.files) > 2)

\* deserialize keeping the groups with a single resolvable document
deserializeKeepSingles(entry) ==
    SelectSeq([k \in 1..Len(entry.groups) |-> deserializeGroup(entry.groups[k])],
              LAMBDA g : Len(g.files) >= 1)

deserialize(entry) ==
    SelectSeq([k \in 1..Len(entry.groups) |-> deserializeGroup(entry.groups[k])],
              LAMBDA g : Len(g.files) >= 2)

\* isValid reads a field of entry.settings although the entry has no settings:
\* a TypeError, reached when the dirty paths and the fingerprint let it through
isValidThrows(entry, currentFiles, st) ==
    /\ ~DirtyHit(entry)
    /\ Len(currentFiles) = entry.fileCount
    /\ MaxMtimeOf(currentFiles) = entry.maxMtime
    /\ "settings" \notin DOMAIN entry

\* deserialize iterates over entry.groups although the entry has no groups
deserializeThrows(entry) == "groups" \notin DOMAIN entry

\* get ends in an exception instead of returning
getThrows(folderPath, currentFiles, st) ==
    LET entry == entries[folderPath]
    IN /\ entry # NoEntry
       /\ \/ isValidThrows(entry, currentFiles, st)
          \/ /\ isValid(entry, currentFiles, st)
             /\ deserializeThrows(entry)

\* what get returns: hit = FALSE stands for null
getResult(folderPath, currentFiles, st) ==
    LET entry == entries[folderPath]
    IN IF entry = NoEntry \/ ~isValid(entry, currentFiles, st)
       THEN [hit |-> FALSE, groups |-> <<>>]
       ELSE [hit |-> TRUE, groups |-> deserialize(entry)]

\* getEntries emptying the whole map on an invalid entry
getEntriesClearAll(folderPath, currentFiles, st) ==
    LET entry == entries[folderPath]
    IN IF entry # NoEntry /\ ~isValid(entry, currentFiles, st)
       THEN [s \in Scopes |-> NoEntry]
       ELSE entries

\* the entry map after get
getEntries(folderPath, currentFiles, st) ==
    LET entry == entries[folderPath]
    IN IF entry # NoEntry /\ ~isValid(entry, currentFiles, st)
       THEN [entries EXCEPT ![folderPath] = NoEntry]
       ELSE entries

clearDirtyPathsNone(folderPath) == dirtyPaths

clearDirtyPathsForFolder(folderPath) ==
    IF folderPath = RootPath THEN {}
    ELSE {path \in dirtyPaths : ~UnderTable[path, folderPath]}

(***************************************************************************)
(* Vault change events and their handlers                                  *)
(***************************************************************************)
\* path lies in the subtree of the folder scope
IsDescendant(path, scope) ==
    \/ scope = RootPath
    \/ LET segs == SplitSlash(path, <<>>)
           ssegs == SplitSlash(scope, <<>>)
       IN Len(segs) > Len(ssegs) /\ SubSeq(segs, 1, Len(ssegs)) = ssegs

ExtensionTable == [p \in Paths |-> ExtensionOf(p)]

DescendantTable == [p \in Paths, sc \in Scopes |-> IsDescendant(p, sc)]

\* markDirty: only markdown documents are recorded
markDirty(path) ==
    IF ExtensionTable[path] = <<"m","d">> THEN dirtyPaths \cup {path} ELSE dirtyPaths

FreePath(p) == \A h \in Handles : vault[h].alive => vault[h].path # p

\* what has come from outside so far: vault events, settings changes, scan
\* requests, the unload, dismissals, pattern reviews
Stimuli == evCount + setCount + Cardinality({id \in ScanIds : scans[id].pc # "idle"})
               + (IF loaded THEN 0 ELSE 1) + Len(dismissedGroups) + hist.patterns

\* scanForDuplicates has been called for the request and has not returned
InFlight(id) == scans[id].pc \in {"title", "refine"}

\* the history after the handlers recorded the paths ps: the scans in flight
\* over them and the entries stored before
Recorded(ps) ==
    LET rec == {q \in ps : ExtensionTable[q] = <<"m","d">>}
    IN [hist EXCEPT
          !.during = @ \cup {id \in ScanIds :
                                InFlight(id) /\ \E q \in rec : DescendantTable[q, scans[id].scope]},
          !.changedAfter = @ \cup {sc \in Scopes :
                                entries[sc] # NoEntry /\ \E q \in rec : DescendantTable[q, sc]}]

OnCreate(h, p) ==
    /\ loaded
    /\ Stimuli < MaxEvents
    /\ vault[h] = NoFile
    /\ \A g \in Handles : g < h => vault[g] # NoFile
    /\ FreePath(p)
    /\ vault' = [vault EXCEPT ![h] = [path |-> p, mtime |-> MaxMtime, alive |-> TRUE]]
    /\ dirtyPaths' = markDirty(p)
    /\ hist' = Recorded({p})
    /\ evCount' = evCount + 1
    /\ last' = [op |-> "dirty"]
    /\ UNCHANGED <<saveVars, settings, entries, now, setCount,
                   scans, scanControllers, aborted, view, persisted, loaded,
                   dismissVars, frontmatter>>

\* the document gets the time of the change, the latest there is
OnModify(h) ==
    /\ loaded
    /\ Stimuli < MaxEvents
    /\ vault[h].alive
    /\ vault' = [vault EXCEPT ![h].mtime = MaxMtime]
    /\ dirtyPaths' = markDirty(vault[h].path)
    /\ hist' = Recorded({vault[h].path})
    /\ evCount' = evCount + 1
    /\ last' = [op |-> "dirty"]
    /\ UNCHANGED <<saveVars, settings, entries, now, setCount,
                   scans, scanControllers, aborted, view, persisted, loaded,
                   dismissVars, frontmatter>>

OnDelete(h) ==
    /\ loaded
    /\ Stimuli < MaxEvents
    /\ vault[h].alive
    /\ vault' = [vault EXCEPT ![h].alive = FALSE]
    /\ dirtyPaths' = markDirty(vault[h].path)
    /\ hist' = Recorded({vault[h].path})
    /\ evCount' = evCount + 1
    /\ last' = [op |-> "dirty"]
    /\ UNCHANGED <<saveVars, settings, entries, now, setCount,
                   scans, scanControllers, aborted, view, persisted, loaded,
                   dismissVars, frontmatter>>

\* the handle keeps its modification time and gets the new path
OnRename(h, p) ==
    /\ loaded
    /\ Stimuli < MaxEvents
    /\ vault[h].alive
    /\ FreePath(p)
    /\ vault' = [vault EXCEPT ![h].path = p]
    /\ dirtyPaths' = IF ExtensionTable[p] = <<"m","d">>
                     THEN dirtyPaths \cup {p, vault[h].path} ELSE dirtyPaths
    /\ hist' = IF ExtensionTable[p] = <<"m","d">>
               THEN Recorded({p, vault[h].path}) ELSE hist
    /\ evCount' = evCount + 1
    /\ last' = [op |-> "dirty"]
    /\ UNCHANGED <<saveVars, settings, entries, now, setCount,
                   scans, scanControllers, aborted, view, persisted, loaded,
                   dismissVars, frontmatter>>

VaultEvent ==
    \/ \E h \in Handles, p \in NewPaths : OnCreate(h, p)
    \/ \E h \in Handles : OnModify(h)
    \/ \E h \in Handles : OnDelete(h)
    \/ \E h \in Handles, p \in NewPaths : OnRename(h, p)

(***************************************************************************)
(* Settings tab                                                            *)
(***************************************************************************)
ChangeSetting(st) ==
    /\ loaded
    /\ Stimuli < MaxEvents
    /\ setCount < MaxSettingChanges
    /\ st # settings
    /\ settings' = st
    /\ setCount' = setCount + 1
    /\ hist' = [hist EXCEPT !.settingAfter =
                    @ \cup {sc \in Scopes : entries[sc] # NoEntry}]
    /\ UNCHANGED <<saveVars, vault, entries, dirtyPaths, now, last, evCount, scans,
                   scanControllers, aborted, view, persisted, loaded,
                   dismissVars, frontmatter>>

SetTitleThreshold(v) ==
    ChangeSetting([settings EXCEPT !.titleSimilarityThreshold = v])

SetEnableContent(b) ==
    ChangeSetting([settings EXCEPT !.enableContentSimilarity = b])

\* the two content controls are shown only while content checking is on
SetContentThreshold(v) ==
    /\ settings.enableContentSimilarity
    /\ ChangeSetting([settings EXCEPT !.contentSimilarityThreshold = v])

SetContentChars(n) ==
    /\ settings.enableContentSimilarity
    /\ n > 0
    /\ ChangeSetting([settings EXCEPT !.contentCharsToAnalyze = n])

SettingsEvent ==
    \/ \E v \in TitleThresholds : SetTitleThreshold(v)
    \/ \E b \in BOOLEAN : SetEnableContent(b)
    \/ \E v \in ContentThresholds : SetContentThreshold(v)
    \/ \E n \in ContentCharValues : SetContentChars(n)

(***************************************************************************)
(* The cache manager driven call by call                                   *)
(***************************************************************************)
NoCall == [op |-> "none"]

\* the file lists a caller passes: the live documents, at most one left out
FileLists ==
    LET all == getMarkdownFiles
    IN {all} \cup {SelectSeq(all, LAMBDA f : f # out) : out \in Range(all)}

\* put, with the groups of a scan of those files under the current settings
ApiPut(folderPath, files) ==
    /\ now < MaxClock
    /\ LET groups == groupDuplicates(
                         findTitleDuplicates(files, settings.titleSimilarityThreshold))
       IN /\ entries' = [entries EXCEPT
                            ![folderPath] = putEntry(folderPath, files, groups, settings)]
          /\ last' = [op |-> "put", scope |-> folderPath, files |-> files,
                      groups |-> groups]
    /\ now' = now + 1
    /\ UNCHANGED <<saveVars, vault, settings, dirtyPaths, evCount, setCount, orchVars>>

ApiGet(folderPath, files) ==
    /\ IF getThrows(folderPath, files, settings)
       THEN /\ entries' = entries
            /\ last' = [op |-> "get", scope |-> folderPath, files |-> files,
                        settings |-> settings, entry |-> entries[folderPath],
                        result |-> [hit |-> FALSE, groups |-> <<>>],
                        raised |-> TRUE]
       ELSE /\ entries' = getEntries(folderPath, files, settings)
            /\ last' = [op |-> "get", scope |-> folderPath, files |-> files,
                        settings |-> settings, entry |-> entries[folderPath],
                        result |-> getResult(folderPath, files, settings),
                        raised |-> FALSE]
    /\ UNCHANGED <<saveVars, vault, settings, dirtyPaths, now, evCount, setCount, orchVars>>

\* a change handler records a path (dirtyPaths.add)
ApiDirtyAdd(path) ==
    /\ path \notin dirtyPaths
    /\ dirtyPaths' = markDirty(path)
    /\ last' = [op |-> "dirty"]
    /\ UNCHANGED <<saveVars, vault, settings, entries, now, evCount, setCount, orchVars>>

ApiClearDirty(folderPath) ==
    /\ dirtyPaths' = clearDirtyPathsForFolder(folderPath)
    /\ dirtyPaths' # dirtyPaths
    /\ last' = [op |-> "clearDirty", scope |-> folderPath]
    /\ UNCHANGED <<saveVars, vault, settings, entries, now, evCount, setCount, orchVars>>

ApiClear ==
    /\ entries' = [s \in Scopes |-> NoEntry]
    /\ dirtyPaths' = {}
    /\ last' = [op |-> "clear"]
    /\ last' # last
    /\ UNCHANGED <<saveVars, vault, settings, now, evCount, setCount, orchVars>>

InitCache ==
    /\ vault = InitVault
    /\ settings = InitSettings
    /\ entries = [s \in Scopes |-> NoEntry]
    /\ dirtyPaths = {}
    /\ now = 0
    /\ last = NoCall
    /\ evCount = 0
    /\ setCount = 0
    /\ scans = [id \in ScanIds |-> IdleScan]
    /\ scanControllers = [s \in Scopes |-> 0]
    /\ aborted = {}
    /\ view = InitView
    /\ persisted = [s \in Scopes |-> NoEntry]
    /\ dataJson = NoData
    /\ saves = NoSaves
    /\ loaded = TRUE
    /\ hist = InitHist
    /\ dismissedGroups = <<>>
    /\ dismissedSet = {}
    /\ frontmatter = [h \in Handles |-> NoValue]

NextCache ==
    \/ \E s \in Scopes : \E fs \in FileLists : ApiPut(s, fs)
    \/ \E s \in Scopes : \E fs \in FileLists : ApiGet(s, fs)
    \/ \E p \in {PathAN, PathABN} : ApiDirtyAdd(p)
    \/ \E s \in Scopes : ApiClearDirty(s)
    \/ ApiClear
    \/ SettingsEvent

SpecCache == InitCache /\ [][NextCache]_vars

(***************************************************************************)
(* The cache manager after load: entries written by an earlier session     *)
(***************************************************************************)
PathSeq == <<PathAN, PathAN1, PathAM, PathABN>>

\* the vaults a session can start with: handle h holds the h-th path or nothing
LoadedVaults ==
    {v \in [Handles -> {NoFile} \cup {[path |-> q, mtime |-> 1, alive |-> TRUE] :
                                          q \in Paths}] :
        \A h \in Handles :
            v[h] # NoFile => h <= Len(PathSeq) /\ v[h].path = PathSeq[h]}

\* the path lists of stored groups: two or more paths, in the order of PathSeq
StoredPathLists ==
    {SelectSeq(PathSeq, LAMBDA q : q \in ps) :
        ps \in {x \in SUBSET Paths : Cardinality(x) >= 2}}

StoredGroups ==
    {[normalizedTitle |-> <<"n">>, originalTitles |-> <<>>, filePaths |-> l] :
        l \in StoredPathLists}

\* load: the root entry of data.json, written under the initial settings
LoadedEntries ==
    {[folderPath |-> RootPath, scanTimestamp |-> 0, fileCount |-> c,
      maxMtime |-> 1, groups |-> gs,
      settings |-> [titleThreshold |-> InitSettings.titleSimilarityThreshold,
                    enableContent |-> InitSettings.enableContentSimilarity,
                    contentThreshold |-> InitSettings.contentSimilarityThreshold,
                    contentChars |-> InitSettings.contentCharsToAnalyze]] :
        c \in 0..MaxFiles,
        gs \in UNION {[1..n -> StoredGroups] : n \in 1..MaxStored}}

InitLoaded ==
    /\ vault \in LoadedVaults
    /\ settings = InitSettings
    /\ \E e \in LoadedEntries : entries = [s \in Scopes |->
                                             IF s = RootPath THEN e ELSE NoEntry]
    /\ dirtyPaths = {}
    /\ now = 0
    /\ last = NoCall
    /\ evCount = 0
    /\ setCount = 0
    /\ scans = [id \in ScanIds |-> IdleScan]
    /\ scanControllers = [s \in Scopes |-> 0]
    /\ aborted = {}
    /\ view = InitView
    /\ persisted = entries
    /\ dataJson = NoData
    /\ saves = NoSaves
    /\ loaded = TRUE
    /\ hist = InitHist
    /\ dismissedGroups = <<>>
    /\ dismissedSet = {}
    /\ frontmatter = [h \in Handles |-> NoValue]

NextLoaded == \E s \in Scopes : \E fs \in FileLists : ApiGet(s, fs)

SpecLoaded == InitLoaded /\ [][NextLoaded]_vars

(***************************************************************************)
(* CacheManager.load on what data.json may hold                            *)
(***************************************************************************)
\* the object without one of its fields
Without(entry, field) == [k \in DOMAIN entry \ {field} |-> entry[k]]

\* entries an earlier session wrote, and entries that lost a field since
PersistedEntries ==
    LET whole == {e \in LoadedEntries : Len(e.groups) = 1}
    IN whole \cup {Without(e, "settings") : e \in whole}
             \cup {Without(e, "groups") : e \in whole}

\* what the key duplicateCache of data.json may hold
CacheSections ==
    {[kind |-> k, value |-> NoEntries] : k \in {"absent", "null", "number", "string"}}
        \cup {[kind |-> "object", value |-> [NoEntries EXCEPT ![RootPath] = e]] :
                 e \in PersistedEntries}

\* what loadData may return
PersistedData ==
    {NoData} \cup
    {[file |-> TRUE,
      settings |-> [kind |-> "object", value |-> InitSettings],
      dismissedGroups |-> [kind |-> "absent", value |-> <<>>],
      duplicateCache |-> sec] : sec \in CacheSections}

\* load: the entries after the call; data && data[CACHE_KEY] && typeof
\* data[CACHE_KEY] === "object" lets an object through and nothing else here
load(data) ==
    IF data.file /\ data.duplicateCache.kind = "object"
    THEN [s \in Scopes |->
             IF data.duplicateCache.value[s] # NoEntry
             THEN data.duplicateCache.value[s]
             ELSE entries[s]]
    ELSE entries

\* onload calls load once, on the new cache manager
ApiLoad ==
    /\ ~loaded
    /\ loaded' = TRUE
    /\ entries' = load(dataJson)
    /\ last' = [op |-> "load", raised |-> FALSE]
    /\ UNCHANGED <<vault, settings, dirtyPaths, now, evCount, setCount, scans,
                   scanControllers, aborted, view, persisted, hist, dismissVars,
                   frontmatter, saveVars>>

InitLoad ==
    /\ vault \in LoadedVaults
    /\ dataJson \in PersistedData
    /\ settings = IF dataJson.file THEN InitSettings ELSE DEFAULT_SETTINGS
    /\ entries = NoEntries
    /\ dirtyPaths = {}
    /\ now = 0
    /\ last = NoCall
    /\ evCount = 0
    /\ setCount = 0
    /\ scans = [id \in ScanIds |-> IdleScan]
    /\ scanControllers = [s \in Scopes |-> 0]
    /\ aborted = {}
    /\ view = InitView
    /\ persisted = NoEntries
    /\ saves = NoSaves
    /\ loaded = FALSE
    /\ hist = InitHist
    /\ dismissedGroups = <<>>
    /\ dismissedSet = {}
    /\ frontmatter = [h \in Handles |-> NoValue]

NextLoad ==
    \/ ApiLoad
    \/ \E s \in Scopes : \E fs \in FileLists : ApiGet(s, fs)

SpecLoad == InitLoad /\ [][NextLoad]_vars

(***************************************************************************)
(* Content comparison                                                      *)
(***************************************************************************)
RECURSIVE TrimStart(_)
TrimStart(s) == IF s # <<>> /\ IsSpace(Head(s)) THEN TrimStart(Tail(s)) ELSE s

RECURSIVE TrimEnd(_)
TrimEnd(s) == IF s # <<>> /\ IsSpace(s[Len(s)])
              THEN TrimEnd(SubSeq(s, 1, Len(s) - 1)) ELSE s

trim(s) == TrimEnd(TrimStart(s))

Dashes == <<"-","-","-">>

\* the text after the second "---" when the text starts with one, trimmed
extractBody(content) ==
    LET seconds == {k \in 4..Len(content) :
                       k + 2 <= Len(content) /\ SubSeq(content, k, k + 2) = Dashes}
    IN IF startsWith(content, Dashes) /\ seconds # {}
       THEN LET k == CHOOSE x \in seconds : \A y \in seconds : x <= y
            IN trim(SubSeq(content, k + 3, Len(content)))
       ELSE trim(content)

\* match(/\w+/g): the maximal runs of word characters
RECURSIVE MatchWords(_, _)
MatchWords(s, cur) ==
    IF s = <<>> THEN (IF cur = <<>> THEN {} ELSE {cur})
    ELSE IF IsWordChar(Head(s)) THEN MatchWords(Tail(s), Append(cur, Head(s)))
         ELSE (IF cur = <<>> THEN {} ELSE {cur}) \cup MatchWords(Tail(s), <<>>)

BodyWords(content, maxChars) ==
    LET body == extractBody(content)
        cut == SubSeq(body, 1, IF maxChars < Len(body) THEN maxChars ELSE Len(body))
    IN MatchWords(toLowerCase(cut), <<>>)

\* contentSimilarity as the fraction num/den, 0/1 when either side has no word
contentSimilarity(content1, content2, maxChars) ==
    LET words1 == BodyWords(content1, maxChars)
        words2 == BodyWords(content2, maxChars)
    IN IF words1 = {} \/ words2 = {} THEN [num |-> 0, den |-> 1]
       ELSE [num |-> Cardinality(words1 \cap words2),
             den |-> Cardinality(words1 \cup words2)]

\* what the documents hold, by path (the text of a document does not change)
ContentOf(path) ==
    IF path = PathAN THEN <<"n"," ","x">>
    ELSE IF path = PathABN THEN <<"-","-","-","t","-","-","-"," ","N"," ","x">>
    ELSE IF path = PathAN1 THEN <<"n"," ","y">>
    ELSE <<"m">>

ContentSimTable ==
    [p \in Paths, q \in Paths, n \in ContentCharValues |->
        contentSimilarity(ContentOf(p), ContentOf(q), n)]

\* a failed read taken for two empty texts
RefineOneUnguarded(item, contentThreshold, maxChars) ==
    IF vault[item.file1].alive /\ vault[item.file2].alive
    THEN LET cSim == ContentSimTable[vault[item.file1].path,
                                     vault[item.file2].path, maxChars]
         IN [file1 |-> item.file1, file2 |-> item.file2,
             num |-> item.num, den |-> item.den,
             cdefined |-> TRUE, cnum |-> cSim.num, cden |-> cSim.den,
             likelyDuplicate |-> cSim.num * 100 >= contentThreshold * cSim.den]
    ELSE [file1 |-> item.file1, file2 |-> item.file2,
          num |-> item.num, den |-> item.den,
          cdefined |-> TRUE, cnum |-> 0, cden |-> 1,
          likelyDuplicate |-> 0 >= contentThreshold]

\* one iteration of the loop of refineWithContent: cachedRead rejects for a
\* deleted document and the pair is then kept as not likely, its
\* contentSimilarity undefined (cdefined false; the sort counts it as 0)
RefineOne(item, contentThreshold, maxChars) ==
    IF vault[item.file1].alive /\ vault[item.file2].alive
    THEN LET cSim == ContentSimTable[vault[item.file1].path,
                                     vault[item.file2].path, maxChars]
         IN [file1 |-> item.file1, file2 |-> item.file2,
             num |-> item.num, den |-> item.den,
             cdefined |-> TRUE, cnum |-> cSim.num, cden |-> cSim.den,
             likelyDuplicate |-> cSim.num * 100 >= contentThreshold * cSim.den]
    ELSE [file1 |-> item.file1, file2 |-> item.file2,
          num |-> item.num, den |-> item.den,
          cdefined |-> FALSE, cnum |-> 0, cden |-> 1, likelyDuplicate |-> FALSE]

\* scoreB - scoreA > 0, the score being titleSimilarity + (contentSimilarity || 0)
ScoreLess(a, b) ==
    (a.num * a.cden + a.cnum * a.den) * (b.den * b.cden)
        < (b.num * b.cden + b.cnum * b.den) * (a.den * a.cden)

RECURSIVE InsertRefined(_, _)
InsertRefined(sorted, x) ==
    IF sorted = <<>> THEN <<x>>
    ELSE IF ScoreLess(Head(sorted), x) THEN <<x>> \o sorted
         ELSE <<Head(sorted)>> \o InsertRefined(Tail(sorted), x)

\* the likely duplicates alone
SortRefinedLikely(s) ==
    LET kept == SelectSeq(s, LAMBDA c : c.likelyDuplicate)
        Sorted[n \in 0..Len(kept)] ==
            IF n = 0 THEN <<>> ELSE InsertRefined(Sorted[n - 1], kept[n])
    IN Sorted[Len(kept)]

RECURSIVE SortRefined(_)
SortRefined(s) ==
    IF s = <<>> THEN <<>>
    ELSE InsertRefined(SortRefined(SubSeq(s, 1, Len(s) - 1)), s[Len(s)])

(***************************************************************************)
(* Exclusion by frontmatter                                                *)
(***************************************************************************)
\* a parsed YAML value: a string or an array of values
StringValue(s) == [kind |-> "string", text |-> s]

ArrayValue(items) == [kind |-> "array", items |-> items]

\* s.indexOf("|"), counted from 1; 0 when there is none
PipeIndex(s) == IF \E i \in 1..Len(s) : s[i] = "|"
                THEN CHOOSE i \in 1..Len(s) : s[i] = "|" /\ \A j \in 1..(i - 1) : s[j] # "|"
                ELSE 0

\* what walk makes of a string leaf
CleanTarget(value) ==
    LET s1 == trim(value)
        s2 == IF startsWith(s1, <<"[","[">>) THEN DropFirst(s1, 2) ELSE s1
        s3 == IF Len(s2) >= 2 /\ SubSeq(s2, Len(s2) - 1, Len(s2)) = <<"]","]">>
              THEN SubSeq(s2, 1, Len(s2) - 2) ELSE s2
        s4 == IF PipeIndex(s3) # 0 THEN SubSeq(s3, 1, PipeIndex(s3) - 1) ELSE s3
    IN trim(s4)

RECURSIVE walk(_)
RECURSIVE WalkItems(_)
walk(value) ==
    IF value.kind = "string"
    THEN (IF CleanTarget(value.text) # <<>> THEN <<CleanTarget(value.text)>> ELSE <<>>)
    ELSE IF value.kind = "array" THEN WalkItems(value.items)
    ELSE <<>>

WalkItems(items) == IF items = <<>> THEN <<>>
                    ELSE walk(Head(items)) \o WalkItems(Tail(items))

parseExclusionTargets(raw) == walk(raw)

\* an unresolved target kept as it was written
resolveLinkKeep(target) ==
    LET md == target \o <<".","m","d">>
        named == SelectSeq(getMarkdownFiles,
                           LAMBDA f : toLowerCase(Basename(f)) = toLowerCase(target))
    IN IF \E h \in Handles : vault[h].alive /\ vault[h].path = target THEN target
       ELSE IF \E h \in Handles : vault[h].alive /\ vault[h].path = md THEN md
       ELSE IF named # <<>> THEN vault[named[1]].path
       ELSE target

resolveLink(target) ==
    LET md == target \o <<".","m","d">>
        named == SelectSeq(getMarkdownFiles,
                           LAMBDA f : toLowerCase(Basename(f)) = toLowerCase(target))
    IN IF \E h \in Handles : vault[h].alive /\ vault[h].path = target THEN target
       ELSE IF \E h \in Handles : vault[h].alive /\ vault[h].path = md THEN md
       ELSE IF named # <<>> THEN vault[named[1]].path
       ELSE NoPath

\* path -> the paths it excludes, for the paths with at least one
buildExclusionMap(files) ==
    LET resolved(f) ==
            {resolveLink(x) : x \in Range(parseExclusionTargets(frontmatter[f]))}
                \ {NoPath}
        listing == {f \in Range(files) : frontmatter[f] # NoValue /\ resolved(f) # {}}
    IN [q \in {vault[f].path : f \in listing} |->
           resolved(CHOOSE f \in listing : vault[f].path = q)]

filterExcludedOneWay(candidates, exclusionMap) ==
    LET Excludes(a, b) == a \in DOMAIN exclusionMap /\ b \in exclusionMap[a]
    IN SelectSeq(candidates,
                 LAMBDA c : ~Excludes(vault[c.file1].path, vault[c.file2].path))

filterExcludedNone(candidates, exclusionMap) == candidates

filterExcludedCandidates(candidates, exclusionMap) ==
    LET Excludes(a, b) == a \in DOMAIN exclusionMap /\ b \in exclusionMap[a]
    IN SelectSeq(candidates,
                 LAMBDA c : /\ ~Excludes(vault[c.file1].path, vault[c.file2].path)
                            /\ ~Excludes(vault[c.file2].path, vault[c.file1].path))

\* refineWithContent, never cancelled
refineWithContent(candidates, contentThreshold, maxChars) ==
    SortRefined([k \in 1..Len(candidates) |->
                    RefineOne(candidates[k], contentThreshold, maxChars)])

\* scanForDuplicates run from its call to its return, never cancelled
scanForDuplicates(folderPath, st, refine) ==
    LET files == collectMarkdownFiles(folderPath, st.ignoredFolders)
        titled == findTitleDuplicates(files, st.titleSimilarityThreshold)
        kept == filterExcludedCandidates(titled, buildExclusionMap(files))
        candidates == IF refine /\ Len(kept) > 0
                      THEN refineWithContent(kept, st.contentSimilarityThreshold,
                                             st.contentCharsToAnalyze)
                      ELSE kept
    IN IF Len(files) < 2 THEN <<>> ELSE groupDuplicates(candidates)

(***************************************************************************)
(* The plugin: review and background scans                                 *)
(***************************************************************************)
EntireVault == <<"E","n","t","i","r","e"," ","v","a","u","l","t">>

\* folder.path === "/" ? "Entire vault" : folder.path
FolderDisplay(folderPath) == IF folderPath = RootPath THEN EntireVault ELSE folderPath

\* g.files.map((f) => f.path)
GroupPaths(g) == [j \in 1..Len(g.files) |-> vault[g.files[j]].path]

\* rebuildDismissalSet: the keys of the recorded groups
rebuildDismissalSet(dismissed) ==
    {JoinNul(SortStrings(dismissed[k])) : k \in 1..Len(dismissed)}

\* dismissGroup: the record after the call
dismissGroup(paths) == Append(dismissedGroups, SortStrings(paths))

\* dismissGroup: the lookup set after the call
dismissGroupSet(paths) == dismissedSet \cup {JoinNul(SortStrings(paths))}

isDismissedAsGiven(paths) == JoinNul(paths) \in dismissedSet

isDismissed(paths) == JoinNul(SortStrings(paths)) \in dismissedSet

filterDismissedNone(groups) == groups

filterDismissedGroups(groups) ==
    SelectSeq(groups, LAMBDA g : ~isDismissed(GroupPaths(g)))

setGroups(groups, folderPath, fromCache) ==
    [groups |-> groups, currentFolder |-> folderPath, currentGroupIndex |-> 0,
     scanInProgress |-> FALSE, resultFromCache |-> fromCache,
     progress |-> NoProgress]

\* showScanning leaves currentGroupIndex as it is
showScanning(folderPath) ==
    [groups |-> <<>>, currentFolder |-> folderPath,
     currentGroupIndex |-> view.currentGroupIndex,
     scanInProgress |-> TRUE, resultFromCache |-> FALSE, progress |-> NoProgress]

\* this.groups.filter((g) => g !== group), for the k-th group shown
RemoveGroup(groups, k) ==
    [j \in 1..(Len(groups) - 1) |-> IF j < k THEN groups[j] ELSE groups[j + 1]]

\* groups[currentGroupIndex] is undefined: reading its normalizedTitle throws
MissingGroup(vw) == vw.currentGroupIndex >= Len(vw.groups)

nextGroup(vw) ==
    IF vw.currentGroupIndex < Len(vw.groups) - 1
    THEN [vw EXCEPT !.currentGroupIndex = @ + 1]
    ELSE vw

previousGroup(vw) ==
    IF vw.currentGroupIndex > 0
    THEN [vw EXCEPT !.currentGroupIndex = @ - 1]
    ELSE vw

\* the pane exists once a review has activated it
ViewExists == view # InitView

Pending == {id \in ScanIds : scans[id].pc \notin {"idle", "done"}}

\* a further request can start a scan
CanStart == /\ Stimuli < MaxEvents
            /\ \E id \in ScanIds : scans[id].pc = "idle"
            /\ Cardinality(Pending) < MaxPending

\* the request that takes the next AbortController
NextId == CHOOSE id \in ScanIds :
              scans[id].pc = "idle" /\ \A k \in ScanIds : k < id => scans[k].pc # "idle"

Done(n) == [IdleScan EXCEPT !.pc = "done", !.returned = n]

\* controller.signal.aborted, as the orchestrator reads it after the scan
SignalAbortedNever(id) == FALSE

SignalAborted(id) == id \in aborted

LoopAbortedNever(id) == FALSE

\* signal?.aborted, as the two loops read it at the top of an iteration
LoopAborted(id) == id \in aborted

\* prev.abort() for the controller registered under the scope, if any
AbortPrevious(cacheKey) ==
    IF scanControllers[cacheKey] # 0
    THEN aborted \cup {scanControllers[cacheKey]} ELSE aborted

\* the history h once the request id stored the entry of the scope
Built(h, id, cacheKey, used) ==
    [h EXCEPT
        !.during = h.during \ {id},
        !.built = [h.built EXCEPT ![cacheKey] = used],
        !.builtDuring = IF id \in h.during THEN h.builtDuring \cup {cacheKey}
                        ELSE h.builtDuring \ {cacheKey},
        !.changedAfter = h.changedAfter \ {cacheKey},
        !.settingAfter = h.settingAfter \ {cacheKey}]

\* the history once get has left ents
Evicted(cacheKey, ents) ==
    IF ents[cacheKey] = NoEntry
    THEN [hist EXCEPT !.built[cacheKey] = NoBuild,
                      !.builtDuring = @ \ {cacheKey},
                      !.changedAfter = @ \ {cacheKey},
                      !.settingAfter = @ \ {cacheKey}]
    ELSE hist

\* onProgress({ stage, current, total })
Progress(stage, current, total) ==
    [stage |-> stage, current |-> current, total |-> total]

ComparingFromZero(i, total) == Progress("comparing", i - 1, total)

\* the event after the yield of the i-th document (i counted from 1)
Comparing(i, total) == Progress("comparing", i, total)

ClosingDoneFirst(candidates, groups) ==
    <<Progress("done", Len(groups), Len(groups)),
      Progress("grouping", 0, Len(candidates))>>

\* the two events around groupDuplicates
Closing(candidates, groups) ==
    <<Progress("grouping", 0, Len(candidates)),
      Progress("done", Len(groups), Len(groups))>>

\* updateProgress: the bar is built or updated when the pane is drawn in its
\* scanning state, and nothing happens otherwise; id: the scan the event is of
updateProgress(vw, progress, id) ==
    IF vw # InitView /\ vw.scanInProgress
    THEN [vw EXCEPT !.progress = [stage |-> progress.stage,
                                  current |-> progress.current,
                                  total |-> progress.total, scan |-> id]]
    ELSE vw

\* the onProgress callbacks of startDuplicateReview and of
\* buildCacheInBackground: only the second looks at its signal
onProgress(kind, id, vw, progress) ==
    IF kind = "background" /\ id \in aborted
    THEN vw
    ELSE updateProgress(vw, progress, id)

\* the pane after the events of one step were reported in their order
RECURSIVE Report(_, _, _, _)
Report(kind, id, vw, events) ==
    IF events = <<>> THEN vw
    ELSE Report(kind, id, onProgress(kind, id, vw, Head(events)), Tail(events))

\* put, clearDirtyPathsForFolder and the call of save, after the scan of the
\* request returned groups and its signal was found not aborted; ev: the
\* progress events the scan reported, rd: the documents it asked the content of
StoreResult(id, kind, cacheKey, files, groups, h, used, ev, rd) ==
    /\ entries' = [entries EXCEPT
                      ![cacheKey] = putEntry(cacheKey, files, groups, settings)]
    /\ dirtyPaths' = clearDirtyPathsForFolder(cacheKey)
    /\ now' = now + 1
    /\ last' = [op |-> "put", scope |-> cacheKey, files |-> files, groups |-> groups]
    /\ hist' = Built(h, id, cacheKey, used)
    /\ scans' = [scans EXCEPT ![id] =
                    [IdleScan EXCEPT !.pc = "saving", !.kind = kind,
                                     !.scope = cacheKey, !.groups = groups,
                                     !.returned = Len(groups),
                                     !.events = ev, !.reads = rd]]

\* scanForDuplicates of a request in flight returns groups: the orchestrator
\* leaves when the signal is aborted, its finally clause unregistering the
\* controller of the scope, and stores the result otherwise
ScanReturns(id, groups, used, ev, rd) ==
    IF SignalAborted(id)
    THEN /\ scans' = [scans EXCEPT ![id] = [Done(Len(groups)) EXCEPT !.events = ev,
                                                                    !.reads = rd]]
         /\ scanControllers' = [scanControllers EXCEPT ![scans[id].scope] = 0]
         /\ hist' = [hist EXCEPT !.during = @ \ {id}]
         /\ UNCHANGED <<saveVars, entries, dirtyPaths, now, last>>
    ELSE /\ StoreResult(id, scans[id].kind, scans[id].scope, scans[id].files,
                        groups, hist, used, ev, rd)
         /\ UNCHANGED scanControllers

UsedBy(sc, refined, contentThreshold, maxChars) ==
    [titleThreshold |-> sc.titleThreshold, refine |-> sc.refine,
     refined |-> refined, contentThreshold |-> contentThreshold,
     maxChars |-> maxChars]

\* the synchronous start of a scan: the previous controller of the scope is
\* aborted, a new one registered, and scanForDuplicates runs up to its first
\* await (the first document of the title loop), or returns [] on fewer than
\* two documents.  ents, lst, h, vw: the state the caller leaves
StartScan(id, kind, cacheKey, files, ents, lst, h, vw) ==
    /\ aborted' = AbortPrevious(cacheKey)
    /\ scanControllers' = [scanControllers EXCEPT ![cacheKey] = id]
    /\ view' = IF Len(files) < 2 THEN vw
               ELSE onProgress(kind, id, vw,
                               Progress("collecting", Len(files), Len(files)))
    /\ IF Len(files) < 2
       THEN StoreResult(id, kind, cacheKey, files, <<>>, h,
                        [NoBuild EXCEPT
                            !.titleThreshold = settings.titleSimilarityThreshold,
                            !.refine = settings.enableContentSimilarity],
                        <<>>, {})
       ELSE /\ scans' = [scans EXCEPT ![id] =
                   [IdleScan EXCEPT
                       !.pc = "title", !.kind = kind, !.scope = cacheKey,
                       !.files = files, !.i = 1,
                       !.wordSets = <<WordsOf(files[1])>>,
                       !.duplicates = TitleStep(files, 1, <<>>,
                                                settings.titleSimilarityThreshold),
                       !.titleThreshold = settings.titleSimilarityThreshold,
                       !.refine = settings.enableContentSimilarity,
                       !.events = <<Progress("collecting", Len(files), Len(files))>>]]
            /\ entries' = ents
            /\ last' = lst
            /\ hist' = h
            /\ UNCHANGED <<saveVars, dirtyPaths, now>>
    /\ UNCHANGED <<saveVars, vault, settings, evCount, setCount, persisted, loaded,
                   dismissVars, frontmatter>>

\* startDuplicateReview, from the return of activateView on
StartDuplicateReview(cacheKey) ==
    /\ loaded
    /\ LET folderPath == FolderDisplay(cacheKey)
           files == collectMarkdownFiles(cacheKey, settings.ignoredFolders)
           cached == getResult(cacheKey, files, settings)
           ents == getEntries(cacheKey, files, settings)
           lst == [op |-> "get", scope |-> cacheKey, files |-> files,
                   settings |-> settings, entry |-> entries[cacheKey],
                   result |-> cached]
       IN IF cached.hit
          THEN /\ view' = setGroups(filterDismissedGroups(cached.groups),
                                    folderPath, TRUE)
               /\ last' = lst
               /\ last' # last \/ view' # view
               /\ UNCHANGED <<saveVars, vault, settings, entries, dirtyPaths, now, evCount,
                              setCount, scans, scanControllers, aborted,
                              persisted, loaded, hist, dismissVars,
                              frontmatter>>
          ELSE /\ CanStart
               /\ StartScan(NextId, "review", cacheKey, files, ents, lst,
                            Evicted(cacheKey, ents), showScanning(folderPath))

\* buildCacheInBackground: no look at the cache, the pane is left alone
BuildCacheInBackground(cacheKey) ==
    /\ loaded
    /\ CanStart
    /\ StartScan(NextId, "background", cacheKey,
                 collectMarkdownFiles(cacheKey, settings.ignoredFolders),
                 entries, last, hist, view)

\* the end of scanForDuplicates of a scan that was not cancelled: the grouping
\* and done events, the groups returned; step: the events of the step before
\* them, ev: every event up to them
FinishScan(id, step, candidates, groups, used, ev, rd) ==
    /\ ScanReturns(id, groups, used, ev \o Closing(candidates, groups), rd)
    /\ view' = Report(scans[id].kind, id, view, step \o Closing(candidates, groups))

\* scanForDuplicates after findTitleDuplicates returned: the exclusion filter
\* gave candidates
AfterTitles(id, sc, comparing, ev, candidates) ==
    IF id \in aborted
    THEN /\ ScanReturns(id, <<>>, UsedBy(sc, FALSE, 0, 0), ev, {})
         /\ view' = Report(sc.kind, id, view, comparing)
    ELSE IF sc.refine /\ Len(candidates) > 0
    THEN /\ scans' = [scans EXCEPT ![id] =
                [sc EXCEPT
                    !.pc = "refine",
                    !.events = ev,
                    !.candidates = candidates,
                    !.contentThreshold = settings.contentSimilarityThreshold,
                    !.maxChars = settings.contentCharsToAnalyze]]
         /\ view' = Report(sc.kind, id, view, comparing)
         /\ UNCHANGED <<saveVars, entries, dirtyPaths, now, last, hist,
                        scanControllers>>
    ELSE FinishScan(id, comparing, candidates, groupDuplicates(candidates),
                    UsedBy(sc, FALSE, 0, 0), ev, {})

\* findTitleDuplicates resumes after a yield: the next document, or the end
\* of the loop (all documents done, or the signal aborted) and what
\* scanForDuplicates does up to its next await
TitleResume(id) ==
    /\ scans[id].pc = "title"
    /\ LET sc == scans[id]
           files == sc.files
           comparing == <<Comparing(sc.i, Len(files))>>
           ev == sc.events \o comparing
       IN IF sc.i < Len(files) /\ ~LoopAborted(id)
          THEN /\ scans' = [scans EXCEPT ![id] =
                      [sc EXCEPT
                          !.i = sc.i + 1,
                          !.events = ev,
                          !.wordSets = Append(sc.wordSets, WordsOf(files[sc.i + 1])),
                          !.duplicates = sc.duplicates \o
                              TitleStep(files, sc.i + 1, sc.wordSets,
                                        sc.titleThreshold)]]
               /\ view' = Report(sc.kind, id, view, comparing)
               /\ UNCHANGED <<saveVars, entries, dirtyPaths, now, last, hist, scanControllers>>
          ELSE AfterTitles(id, sc, comparing, ev,
                           filterExcludedCandidates(SortCandidates(sc.duplicates),
                                                    buildExclusionMap(files)))
    /\ UNCHANGED <<saveVars, vault, settings, evCount, setCount, aborted, persisted,
                   loaded, dismissVars, frontmatter>>

\* the reads the iteration makes, each as <<file1, file2, document read>>: the
\* second read is not made when the first one failed
ContentReads(item) ==
    IF vault[item.file1].alive
    THEN {<<item.file1, item.file2, item.file1>>, <<item.file1, item.file2, item.file2>>}
    ELSE {<<item.file1, item.file2, item.file1>>}

\* one iteration of refineWithContent done, refined: the candidates scored so
\* far; then the next iteration begins, or the loop ends (all candidates done,
\* or the signal aborted) and the rest of scanForDuplicates runs
RefineUnit(id, sc, refined, rd) ==
    LET r == Len(refined)
        used == UsedBy(sc, TRUE, sc.contentThreshold, sc.maxChars)
        refining == <<Progress("refining", r, Len(sc.candidates))>>
        ev == sc.events \o refining
    IN IF r < Len(sc.candidates) /\ ~LoopAborted(id)
       THEN /\ scans' = [scans EXCEPT ![id] =
                   [sc EXCEPT !.refined = refined, !.events = ev, !.reads = rd]]
            /\ view' = Report(sc.kind, id, view, refining)
            /\ UNCHANGED <<saveVars, entries, dirtyPaths, now, last, hist,
                           scanControllers>>
       ELSE IF id \in aborted
            THEN /\ ScanReturns(id, <<>>, used, ev, rd)
                 /\ view' = Report(sc.kind, id, view, refining)
            ELSE FinishScan(id, refining, refined,
                            groupDuplicates(SortRefined(refined)), used, ev, rd)

\* refineWithContent resumes in the iteration it had begun: the two reads of
\* the pair, its score, the yield and the progress event
RefineResume(id) ==
    /\ scans[id].pc = "refine"
    /\ LET sc == scans[id]
           item == sc.candidates[Len(sc.refined) + 1]
       IN RefineUnit(id, sc,
                     Append(sc.refined,
                            RefineOne(item, sc.contentThreshold, sc.maxChars)),
                     sc.reads \cup ContentReads(item))
    /\ UNCHANGED <<saveVars, vault, settings, evCount, setCount, aborted, persisted,
                   loaded, dismissVars, frontmatter>>

\* save has written the cache section: the pane gets the groups and the
\* finally clause unregisters the controller of the scope
SaveDone(id) ==
    /\ scans[id].pc = "saving"
    /\ persisted' = entries
    /\ view' = IF ViewExists
               THEN setGroups(filterDismissedGroups(scans[id].groups),
                              FolderDisplay(scans[id].scope), FALSE)
               ELSE view
    /\ scanControllers' = [scanControllers EXCEPT ![scans[id].scope] = 0]
    /\ scans' = [scans EXCEPT ![id] = [Done(scans[id].returned) EXCEPT
                                           !.events = scans[id].events,
                                           !.reads = scans[id].reads]]
    /\ UNCHANGED <<saveVars, vault, settings, entries, dirtyPaths, now, last, evCount,
                   setCount, aborted, loaded, hist, dismissVars, frontmatter>>

\* the patterns typed into the pattern prompt
Patterns == {<<"n">>, <<"N"," ","1">>, <<"x">>}

\* `Pattern: ${pattern}`
PatternLabel(pattern) == <<"P","a","t","t","e","r","n",":"," ">> \o pattern

findByPattern(files, pattern) ==
    SelectSeq(files, LAMBDA f : includes(toLowerCase(Basename(f)), toLowerCase(pattern)))

\* the group synthesized when grouping leaves nothing
CatchAll(pattern, matchingFiles) ==
    [normalizedTitle |-> toLowerCase(pattern),
     originalTitles |-> Distinct([k \in 1..Len(matchingFiles) |->
                                     Basename(matchingFiles[k])]),
     files |-> matchingFiles, candidates |-> <<>>]

\* the groups of the pattern review: the catch-all group when grouping leaves
\* nothing
OrCatchAll(pattern, matchingFiles, groups) ==
    IF Len(matchingFiles) = 0 THEN <<>>
    ELSE IF Len(groups) = 0 /\ Len(matchingFiles) > 1
         THEN <<CatchAll(pattern, matchingFiles)>>
         ELSE groups

\* the title candidates of the matching files, less the excluded ones
PatternCandidates(matchingFiles) ==
    filterExcludedCandidates(
        findTitleDuplicates(matchingFiles, settings.titleSimilarityThreshold),
        buildExclusionMap(matchingFiles))

\* the groups startPatternReview arrives at, before the dismissal filter
PatternGroups(pattern) ==
    LET matchingFiles ==
            findByPattern(collectMarkdownFiles(RootPath, settings.ignoredFolders),
                          pattern)
    IN OrCatchAll(pattern, matchingFiles,
                  groupDuplicates(PatternCandidates(matchingFiles)))

StartPatternReviewClearing(pattern) ==
    /\ loaded
    /\ Stimuli < MaxEvents
    /\ view' = setGroups(filterDismissedGroups(PatternGroups(pattern)),
                         PatternLabel(pattern), FALSE)
    /\ dirtyPaths' = clearDirtyPathsForFolder(RootPath)
    /\ hist' = [hist EXCEPT !.patterns = @ + 1]
    /\ UNCHANGED <<saveVars, vault, settings, entries, now, last, evCount,
                   setCount, scans, scanControllers, aborted, persisted, loaded,
                   dismissVars, frontmatter>>

\* startPatternReview, from the return of activateView on, its title loop
\* taken in one step
StartPatternReview(pattern) ==
    /\ loaded
    /\ Stimuli < MaxEvents
    /\ view' = setGroups(filterDismissedGroups(PatternGroups(pattern)),
                         PatternLabel(pattern), FALSE)
    /\ hist' = [hist EXCEPT !.patterns = @ + 1]
    /\ UNCHANGED <<saveVars, vault, settings, entries, dirtyPaths, now, last, evCount,
                   setCount, scans, scanControllers, aborted, persisted, loaded,
                   dismissVars, frontmatter>>

\* the Dismiss button of the k-th group shown: dismissGroup with the paths of
\* its documents, then the group leaves the pane
DismissClick(k) ==
    /\ loaded
    /\ Stimuli < MaxEvents
    /\ Len(dismissedGroups) < MaxDismissals
    /\ k \in 1..Len(view.groups)
    /\ LET paths == GroupPaths(view.groups[k])
       IN /\ dismissedGroups' = dismissGroup(paths)
          /\ dismissedSet' = dismissGroupSet(paths)
          /\ hist' = [hist EXCEPT !.dismissed = @ \cup {Range(paths)}]
    /\ view' = [view EXCEPT !.groups = RemoveGroup(view.groups, k)]
    /\ UNCHANGED <<saveVars, vault, settings, entries, dirtyPaths, now, last, evCount,
                   setCount, scans, scanControllers, aborted, persisted, loaded,
                   frontmatter>>

\* onunload aborts every registered controller
Onunload ==
    /\ loaded
    /\ Stimuli < MaxEvents
    /\ loaded' = FALSE
    /\ aborted' = aborted \cup ({scanControllers[sc] : sc \in Scopes} \ {0})
    /\ UNCHANGED <<saveVars, vault, settings, entries, dirtyPaths, now, last, evCount,
                   setCount, scans, scanControllers, view, persisted, hist,
                   dismissVars, frontmatter>>

Init == InitCache

Next ==
    \/ \E sc \in Scopes : StartDuplicateReview(sc)
    \/ \E sc \in Scopes : BuildCacheInBackground(sc)
    \/ \E id \in ScanIds : TitleResume(id)
    \/ \E id \in ScanIds : RefineResume(id)
    \/ \E id \in ScanIds : SaveDone(id)
    \/ VaultEvent
    \/ SettingsEvent
    \/ \E p \in Patterns : StartPatternReview(p)
    \/ \E k \in 1..MaxFiles : DismissClick(k)
    \/ Onunload

Spec == Init /\ [][Next]_vars

(***************************************************************************)
(* Scans and pattern reviews over vaults with exclusion metadata           *)
(***************************************************************************)
\* the vaults scanned: two or more documents, in any order of enumeration
ScanVaults ==
    {v \in [Handles -> {NoFile} \cup {[path |-> q, mtime |-> 1, alive |-> TRUE] :
                                          q \in Paths}] :
        /\ v[1] # NoFile /\ v[2] # NoFile
        /\ \A h \in Handles : v[h] = NoFile => \A g \in Handles : g > h => v[g] = NoFile
        /\ \A h \in Handles, g \in Handles :
               (h # g /\ v[h] # NoFile) => v[h] # v[g]}

\* duplicate-exclusion values as the YAML parser hands them over: a wiki
\* link to a name, a path without extension, a flow sequence [[N]] (an array
\* in an array), a path with an alias between blanks
ExclusionValues ==
    {StringValue(<<"[","[","n"," ","1","]","]">>),
     StringValue(<<"a","b","/","n">>),
     ArrayValue(<<ArrayValue(<<StringValue(<<"N">>)>>)>>),
     StringValue(<<" ">> \o PathAN \o <<"|","x"," ">>)}

\* the metadata of a vault: at most two documents carry the key
Frontmatters(v) ==
    {m \in [Handles -> {NoValue} \cup ExclusionValues] :
        /\ \A h \in Handles : v[h] = NoFile => m[h] = NoValue
        /\ Cardinality({h \in Handles : m[h] # NoValue}) <= 2}

InitScan ==
    /\ vault \in ScanVaults
    /\ frontmatter \in Frontmatters(vault)
    /\ \E v \in TitleThresholds :
           settings = [InitSettings EXCEPT !.titleSimilarityThreshold = v]
    /\ entries = [s \in Scopes |-> NoEntry]
    /\ dirtyPaths = {}
    /\ now = 0
    /\ last = NoCall
    /\ evCount = 0
    /\ setCount = 0
    /\ scans = [id \in ScanIds |-> IdleScan]
    /\ scanControllers = [s \in Scopes |-> 0]
    /\ aborted = {}
    /\ view = InitView
    /\ persisted = [s \in Scopes |-> NoEntry]
    /\ dataJson = NoData
    /\ saves = NoSaves
    /\ loaded = TRUE
    /\ hist = InitHist
    /\ dismissedGroups = <<>>
    /\ dismissedSet = {}

\* scanForDuplicates called as the orchestrator calls it
ApiScan(folderPath) ==
    /\ last' = [op |-> "scan", scope |-> folderPath,
                titled |-> findTitleDuplicates(
                               collectMarkdownFiles(folderPath, settings.ignoredFolders),
                               settings.titleSimilarityThreshold),
                groups |-> scanForDuplicates(folderPath, settings,
                                             settings.enableContentSimilarity)]
    /\ UNCHANGED <<saveVars, vault, settings, entries, dirtyPaths, now, evCount, setCount,
                   orchVars>>

NextScan ==
    \/ \E s \in Scopes : ApiScan(s)
    \/ \E p \in Patterns : StartPatternReview(p)

SpecScan == InitScan /\ [][NextScan]_vars

(***************************************************************************)
(* Scans of the whole vault while documents are deleted                    *)
(***************************************************************************)
InitRefine ==
    /\ vault \in ScanVaults
    /\ settings = [InitSettings EXCEPT !.titleSimilarityThreshold = 50]
    /\ frontmatter = [h \in Handles |-> NoValue]
    /\ scans = [id \in ScanIds |-> IdleScan]
    /\ scanControllers = [s \in Scopes |-> 0]
    /\ view = InitView
    /\ entries = [s \in Scopes |-> NoEntry]
    /\ dirtyPaths = {}
    /\ now = 0
    /\ last = NoCall
    /\ evCount = 0
    /\ setCount = 0
    /\ aborted = {}
    /\ persisted = [s \in Scopes |-> NoEntry]
    /\ dataJson = NoData
    /\ saves = NoSaves
    /\ loaded = TRUE
    /\ hist = InitHist
    /\ dismissedGroups = <<>>
    /\ dismissedSet = {}

\* the first review of the session, of the whole vault
FirstReview ==
    /\ \A id \in ScanIds : scans[id].pc = "idle"
    /\ StartDuplicateReview(RootPath)

NextRefine ==
    \/ FirstReview
    \/ \E id \in ScanIds : TitleResume(id)
    \/ \E id \in ScanIds : RefineResume(id)
    \/ \E id \in ScanIds : SaveDone(id)
    \/ \E h \in Handles : OnDelete(h)

SpecRefine == InitRefine /\ [][NextRefine]_vars

(***************************************************************************)
(* Reviews of the whole vault under every content threshold, with and      *)
(* without refinement, while documents are deleted                         *)
(***************************************************************************)
\* the content thresholds of the scans: the slider positions and its end
MembershipThresholds == ContentThresholds \cup {100}

InitMembership ==
    /\ vault \in ScanVaults
    /\ frontmatter \in Frontmatters(vault)
    /\ \E refine \in BOOLEAN, contentThreshold \in MembershipThresholds :
           settings = [InitSettings EXCEPT !.titleSimilarityThreshold = 50,
                                           !.enableContentSimilarity = refine,
                                           !.contentSimilarityThreshold = contentThreshold]
    /\ scans = [id \in ScanIds |-> IdleScan]
    /\ scanControllers = [s \in Scopes |-> 0]
    /\ view = InitView
    /\ entries = [s \in Scopes |-> NoEntry]
    /\ dirtyPaths = {}
    /\ now = 0
    /\ last = NoCall
    /\ evCount = 0
    /\ setCount = 0
    /\ aborted = {}
    /\ persisted = [s \in Scopes |-> NoEntry]
    /\ dataJson = NoData
    /\ saves = NoSaves
    /\ loaded = TRUE
    /\ hist = InitHist
    /\ dismissedGroups = <<>>
    /\ dismissedSet = {}

\* a document is deleted while a scan is refining
DeleteWhileRefining(h) ==
    /\ \E id \in ScanIds : scans[id].pc = "refine"
    /\ OnDelete(h)

NextMembership ==
    \/ FirstReview
    \/ \E id \in ScanIds : TitleResume(id)
    \/ \E id \in ScanIds : RefineResume(id)
    \/ \E id \in ScanIds : SaveDone(id)
    \/ \E h \in Handles : DeleteWhileRefining(h)

SpecMembership == InitMembership /\ [][NextMembership]_vars

(***************************************************************************)
(* buildExclusionMap over metadata of any shape                            *)
(***************************************************************************)
\* a parsed YAML number
NumberValue == [kind |-> "number"]

\* duplicate-exclusion values: a link to a name, a name nothing has, a
\* number, a list of a number and a path, a list in a list, a list of a
\* name nothing has and a path with an alias
MapValues ==
    {StringValue(<<"[","[","n"," ","1","]","]">>),
     StringValue(<<"z">>),
     NumberValue,
     ArrayValue(<<NumberValue, StringValue(<<"a","b","/","n">>)>>),
     ArrayValue(<<ArrayValue(<<StringValue(<<"N">>)>>)>>),
     ArrayValue(<<StringValue(<<"z">>), StringValue(PathAN \o <<"|","x">>)>>)}

\* the metadata of a vault: at most two documents carry the key
MapFrontmatters(v) ==
    {m \in [Handles -> {NoValue} \cup MapValues] :
        /\ \A h \in Handles : v[h] = NoFile => m[h] = NoValue
        /\ Cardinality({h \in Handles : m[h] # NoValue}) <= 2}

InitExclusion ==
    /\ vault \in ScanVaults
    /\ frontmatter \in MapFrontmatters(vault)
    /\ settings = InitSettings
    /\ entries = [s \in Scopes |-> NoEntry]
    /\ dirtyPaths = {}
    /\ now = 0
    /\ last = NoCall
    /\ evCount = 0
    /\ setCount = 0
    /\ scans = [id \in ScanIds |-> IdleScan]
    /\ scanControllers = [s \in Scopes |-> 0]
    /\ aborted = {}
    /\ view = InitView
    /\ persisted = [s \in Scopes |-> NoEntry]
    /\ dataJson = NoData
    /\ saves = NoSaves
    /\ loaded = TRUE
    /\ hist = InitHist
    /\ dismissedGroups = <<>>
    /\ dismissedSet = {}

\* buildExclusionMap called on the documents of a scope
ApiBuildExclusionMap(folderPath) ==
    /\ LET files == collectMarkdownFiles(folderPath, settings.ignoredFolders)
       IN last' = [op |-> "buildExclusionMap", files |-> files,
                   map |-> buildExclusionMap(files)]
    /\ UNCHANGED <<saveVars, vault, settings, entries, dirtyPaths, now, evCount,
                   setCount, orchVars>>

NextExclusion == \E s \in Scopes : ApiBuildExclusionMap(s)

SpecExclusion == InitExclusion /\ [][NextExclusion]_vars

(***************************************************************************)
(* The review pane under its buttons and commands                          *)
(***************************************************************************)
\* a vault of three titles
PaneVault ==
    [h \in Handles |->
        IF h = 1 THEN [path |-> PathAN, mtime |-> 1, alive |-> TRUE]
        ELSE IF h = 2 THEN [path |-> PathAN1, mtime |-> 1, alive |-> TRUE]
        ELSE IF h = 3 THEN [path |-> PathAM, mtime |-> 1, alive |-> TRUE]
        ELSE NoFile]

\* candidates whose first documents have three titles
PaneCandidates ==
    <<[file1 |-> 1, file2 |-> 2, num |-> 1, den |-> 2],
      [file1 |-> 2, file2 |-> 3, num |-> 1, den |-> 3],
      [file1 |-> 3, file2 |-> 1, num |-> 1, den |-> 4]>>

\* the group lists handed to setGroups: none to three groups
PaneGroupLists == {groupDuplicates(SubSeq(PaneCandidates, 1, n)) : n \in 0..3}

InitPane ==
    /\ vault = PaneVault
    /\ settings = InitSettings
    /\ entries = [s \in Scopes |-> NoEntry]
    /\ dirtyPaths = {}
    /\ now = 0
    /\ last = NoCall
    /\ evCount = 0
    /\ setCount = 0
    /\ scans = [id \in ScanIds |-> IdleScan]
    /\ scanControllers = [s \in Scopes |-> 0]
    /\ aborted = {}
    /\ \E groups \in PaneGroupLists : view = setGroups(groups, FolderDisplay(RootPath), FALSE)
    /\ persisted = [s \in Scopes |-> NoEntry]
    /\ dataJson = NoData
    /\ saves = NoSaves
    /\ loaded = TRUE
    /\ hist = InitHist
    /\ dismissedGroups = <<>>
    /\ dismissedSet = {}
    /\ frontmatter = [h \in Handles |-> NoValue]

ApiSetGroups ==
    /\ \E groups \in PaneGroupLists :
           view' = setGroups(groups, FolderDisplay(RootPath), FALSE)
    /\ last' = [op |-> "setGroups", raised |-> FALSE]
    /\ UNCHANGED <<saveVars, vault, settings, entries, dirtyPaths, now, evCount,
                   setCount, scans, scanControllers, aborted, persisted, loaded,
                   hist, dismissVars, frontmatter>>

ApiShowScanning ==
    /\ view' = showScanning(FolderDisplay(RootPath))
    /\ last' = [op |-> "showScanning", raised |-> FALSE]
    /\ UNCHANGED <<saveVars, vault, settings, entries, dirtyPaths, now, evCount,
                   setCount, scans, scanControllers, aborted, persisted, loaded,
                   hist, dismissVars, frontmatter>>

\* the command "next group"
ApiNextGroup ==
    /\ view' = nextGroup(view)
    /\ last' = [op |-> "nextGroup", raised |-> view' # view /\ MissingGroup(view')]
    /\ UNCHANGED <<saveVars, vault, settings, entries, dirtyPaths, now, evCount,
                   setCount, scans, scanControllers, aborted, persisted, loaded,
                   hist, dismissVars, frontmatter>>

\* the command "previous group"
ApiPreviousGroup ==
    /\ view' = previousGroup(view)
    /\ last' = [op |-> "previousGroup", raised |-> view' # view /\ MissingGroup(view')]
    /\ UNCHANGED <<saveVars, vault, settings, entries, dirtyPaths, now, evCount,
                   setCount, scans, scanControllers, aborted, persisted, loaded,
                   hist, dismissVars, frontmatter>>

\* the x button of the k-th group shown: the group leaves the pane
CloseClick(k) ==
    /\ k \in 1..Len(view.groups)
    /\ view' = [view EXCEPT !.groups = RemoveGroup(view.groups, k)]
    /\ last' = [op |-> "close", raised |-> FALSE]
    /\ UNCHANGED <<saveVars, vault, settings, entries, dirtyPaths, now, evCount,
                   setCount, scans, scanControllers, aborted, persisted, loaded,
                   hist, dismissVars, frontmatter>>

NextPane ==
    \/ ApiSetGroups
    \/ ApiShowScanning
    \/ ApiNextGroup
    \/ ApiPreviousGroup
    \/ \E k \in 1..MaxFiles : CloseClick(k)
    \/ \E k \in 1..MaxFiles : DismissClick(k)

SpecPane == InitPane /\ [][NextPane]_vars

(***************************************************************************)
(* Reviews of the whole vault that supersede one another, and unload; the  *)
(* event loop resumes every scan that waits                                *)
(***************************************************************************)
\* the vaults reviewed: two documents of one title, alone or with a third
CancelVaults == {v \in ScanVaults : v[1].path = PathAN /\ v[2].path = PathABN}

InitCancel ==
    /\ vault \in CancelVaults
    /\ settings = [InitSettings EXCEPT !.titleSimilarityThreshold = 50]
    /\ frontmatter = [h \in Handles |-> NoValue]
    /\ scans = [id \in ScanIds |-> IdleScan]
    /\ scanControllers = [s \in Scopes |-> 0]
    /\ view = InitView
    /\ entries = [s \in Scopes |-> NoEntry]
    /\ dirtyPaths = {}
    /\ now = 0
    /\ last = NoCall
    /\ evCount = 0
    /\ setCount = 0
    /\ aborted = {}
    /\ persisted = [s \in Scopes |-> NoEntry]
    /\ dataJson = NoData
    /\ saves = NoSaves
    /\ loaded = TRUE
    /\ hist = InitHist
    /\ dismissedGroups = <<>>
    /\ dismissedSet = {}

\* a scan resumes from its await
Resume == \E id \in ScanIds : TitleResume(id) \/ RefineResume(id)

NextCancel ==
    \/ StartDuplicateReview(RootPath)
    \/ Resume
    \/ \E id \in ScanIds : SaveDone(id)
    \/ Onunload

\* a scan waits to be resumed: Resume is enabled in exactly these states
Waiting == \E id \in ScanIds : InFlight(id)

\* weak fairness of Resume, WF_vars(Resume) written out with Waiting for
\* ENABLED <<Resume>>_vars: the event loop goes on resuming the scans that
\* wait, since yieldToEventLoop resolves and every cachedRead returns or fails
ResumeFair == []<>(~Waiting) \/ []<><<Resume>>_vars

SpecCancel == InitCancel /\ [][NextCancel]_vars /\ ResumeFair

(***************************************************************************)
(* Reviews of the whole vault over exclusion metadata, with and without    *)
(* refinement                                                              *)
(***************************************************************************)
InitFiltered ==
    /\ vault \in ScanVaults
    /\ frontmatter \in Frontmatters(vault)
    /\ \E refine \in BOOLEAN :
           settings = [InitSettings EXCEPT !.titleSimilarityThreshold = 50,
                                           !.enableContentSimilarity = refine]
    /\ scans = [id \in ScanIds |-> IdleScan]
    /\ scanControllers = [s \in Scopes |-> 0]
    /\ view = InitView
    /\ entries = [s \in Scopes |-> NoEntry]
    /\ dirtyPaths = {}
    /\ now = 0
    /\ last = NoCall
    /\ evCount = 0
    /\ setCount = 0
    /\ aborted = {}
    /\ persisted = [s \in Scopes |-> NoEntry]
    /\ dataJson = NoData
    /\ saves = NoSaves
    /\ loaded = TRUE
    /\ hist = InitHist
    /\ dismissedGroups = <<>>
    /\ dismissedSet = {}

NextFiltered ==
    \/ FirstReview
    \/ \E id \in ScanIds : TitleResume(id)
    \/ \E id \in ScanIds : RefineResume(id)
    \/ \E id \in ScanIds : SaveDone(id)

SpecFiltered == InitFiltered /\ [][NextFiltered]_vars

(***************************************************************************)
(* Title comparison and grouping over vaults of notes                      *)
(***************************************************************************)
\* the vaults compared: two or more documents, in any order of enumeration
TitleVaults ==
    {v \in [Handles -> {NoFile} \cup {[path |-> q, mtime |-> 1, alive |-> TRUE] :
                                          q \in TitlePaths}] :
        /\ v[1] # NoFile /\ v[2] # NoFile
        /\ \A h \in Handles : v[h] = NoFile => \A g \in Handles : g > h => v[g] = NoFile
        /\ \A h \in Handles, g \in Handles :
               (h # g /\ v[h] # NoFile) => v[h] # v[g]}

InitTitles ==
    /\ vault \in TitleVaults
    /\ \E v \in TitleThresholds :
           settings = [InitSettings EXCEPT !.titleSimilarityThreshold = v]
    /\ entries = [s \in Scopes |-> NoEntry]
    /\ dirtyPaths = {}
    /\ now = 0
    /\ last = NoCall
    /\ evCount = 0
    /\ setCount = 0
    /\ scans = [id \in ScanIds |-> IdleScan]
    /\ scanControllers = [s \in Scopes |-> 0]
    /\ aborted = {}
    /\ view = InitView
    /\ persisted = [s \in Scopes |-> NoEntry]
    /\ dataJson = NoData
    /\ saves = NoSaves
    /\ loaded = TRUE
    /\ hist = InitHist
    /\ dismissedGroups = <<>>
    /\ dismissedSet = {}
    /\ frontmatter = [h \in Handles |-> NoValue]

\* findTitleDuplicates over the documents of the vault, then groupDuplicates
ApiFindTitleDuplicates ==
    /\ LET files == collectMarkdownFiles(RootPath, settings.ignoredFolders)
           duplicates == findTitleDuplicates(files, settings.titleSimilarityThreshold)
       IN last' = [op |-> "findTitleDuplicates", files |-> files,
                   titleThreshold |-> settings.titleSimilarityThreshold,
                   duplicates |-> duplicates,
                   groups |-> groupDuplicates(duplicates)]
    /\ UNCHANGED <<saveVars, vault, settings, entries, dirtyPaths, now, evCount, setCount,
                   orchVars>>

NextTitles == ApiFindTitleDuplicates

SpecTitles == InitTitles /\ [][NextTitles]_vars

(***************************************************************************)
(* The title normaliser called on its own                                  *)
(***************************************************************************)
\* pieces of titles: an index code, brackets, a decimal number, the
\* extension in both cases, a blank, letters, punctuation
TitleTokens ==
    {<<"A","B","1">>, <<"[">>, <<"]">>, <<"1",".","2">>, <<".","m","d">>,
     <<".","M","D">>, <<" ">>, <<"x">>, <<"N">>, <<"-">>, <<"_">>}

RECURSIVE Concat(_)
Concat(ss) == IF ss = <<>> THEN <<>> ELSE Head(ss) \o Concat(Tail(ss))

Titles == {Concat(ss) : ss \in UNION {[1..n -> TitleTokens] : n \in 0..MaxTokens}}

\* titles with the result expected of each: the three of the documentation,
\* then titles that show the order and the reach of the rules (an index code
\* before a decimal number and after one, two index codes, a bracketed code,
\* five letters, one letter, the extension in upper case and twice,
\* punctuation and an underscore)
NormalizeExamples ==
    {[title |-> <<"E","A","D","0","0","0","1"," ","M","e","e","t","i","n","g"," ","N","o","t","e","s",".","m","d">>,
      result |-> <<"m","e","e","t","i","n","g"," ","n","o","t","e","s">>],
     [title |-> <<"M","e","e","t","i","n","g"," ","N","o","t","e","s",".","m","d">>,
      result |-> <<"m","e","e","t","i","n","g"," ","n","o","t","e","s">>],
     [title |-> <<"2","5","0",".","2","5"," ","B","u","d","g","e","t"," ","P","l","a","n">>,
      result |-> <<"b","u","d","g","e","t"," ","p","l","a","n">>],
     [title |-> <<"A","B","1"," ","1",".","2"," ","x">>,
      result |-> <<"x">>],
     [title |-> <<"1",".","2"," ","A","B","1"," ","x">>,
      result |-> <<"a","b","1"," ","x">>],
     [title |-> <<"A","B","1"," ","A","B","1"," ","x">>,
      result |-> <<"a","b","1"," ","x">>],
     [title |-> <<"[","A","B","C","D","1","2","]"," ","x">>,
      result |-> <<"x">>],
     [title |-> <<"A","B","C","D","E","1"," ","x">>,
      result |-> <<"a","b","c","d","e","1"," ","x">>],
     [title |-> <<"A","1"," ","x">>,
      result |-> <<"a","1"," ","x">>],
     [title |-> <<"x",".","M","D">>,
      result |-> <<"x">>],
     [title |-> <<"x",".","m","d",".","m","d">>,
      result |-> <<"x","m","d">>],
     [title |-> <<"N"," ","-"," ","x","_","y">>,
      result |-> <<"n"," ","x","_","y">>]}

\* one call in a behaviour
ApiNormalizeTitle(title) ==
    /\ last = NoCall
    /\ last' = [op |-> "normalizeTitle", title |-> title,
                result |-> normalizeTitle(title)]
    /\ UNCHANGED <<saveVars, vault, settings, entries, dirtyPaths, now, evCount, setCount,
                   orchVars>>

NextNormalize ==
    \E s \in Titles \cup {e.title : e \in NormalizeExamples} : ApiNormalizeTitle(s)

SpecNormalize == InitCache /\ [][NextNormalize]_vars

(***************************************************************************)
(* The two similarity functions called on their own                        *)
(***************************************************************************)
\* pieces of the compared titles: words in both cases, punctuation, an index
\* code, the extension
SimTitleTokens ==
    {<<"x"," ">>, <<"y"," ">>, <<"X">>, <<"-">>, <<"A","B","1"," ">>,
     <<".","m","d">>}

SimTitles ==
    {Concat(ss) : ss \in UNION {[1..n -> SimTitleTokens] : n \in 0..MaxSimTokens}}

\* pieces of the compared texts: words, a frontmatter fence, a blank
SimContentTokens ==
    {<<"x"," ">>, <<"y","z"," ">>, <<"X">>, <<"-","-","-">>, <<" ">>}

SimContents ==
    {Concat(ss) : ss \in UNION {[1..n -> SimContentTokens] : n \in 0..MaxSimTokens}}

\* the lengths the texts are cut to
SimCharValues == {1, 3, 1000}

\* one call in a behaviour
\* the arguments of the one call of a behaviour
SimilarityCalls ==
    {[op |-> "titles", title1 |-> a, title2 |-> b] : a \in SimTitles, b \in SimTitles}
        \cup {[op |-> "contents", content1 |-> a, content2 |-> b, maxChars |-> n] :
                 a \in SimContents, b \in SimContents, n \in SimCharValues}

InitSimilarity ==
    /\ vault = InitVault
    /\ settings = InitSettings
    /\ entries = NoEntries
    /\ dirtyPaths = {}
    /\ now = 0
    /\ last \in SimilarityCalls
    /\ evCount = 0
    /\ setCount = 0
    /\ scans = [id \in ScanIds |-> IdleScan]
    /\ scanControllers = [s \in Scopes |-> 0]
    /\ aborted = {}
    /\ view = InitView
    /\ persisted = NoEntries
    /\ dataJson = NoData
    /\ saves = NoSaves
    /\ loaded = TRUE
    /\ hist = InitHist
    /\ dismissedGroups = <<>>
    /\ dismissedSet = {}
    /\ frontmatter = [h \in Handles |-> NoValue]

ApiTitleSimilarity ==
    /\ last.op = "titles"
    /\ last' = [op |-> "titleSimilarity", title1 |-> last.title1,
                title2 |-> last.title2,
                result |-> titleSimilarity(last.title1, last.title2)]
    /\ UNCHANGED <<saveVars, vault, settings, entries, dirtyPaths, now, evCount, setCount,
                   orchVars>>

ApiContentSimilarity ==
    /\ last.op = "contents"
    /\ last' = [op |-> "contentSimilarity", content1 |-> last.content1,
                content2 |-> last.content2, maxChars |-> last.maxChars,
                result |-> contentSimilarity(last.content1, last.content2,
                                             last.maxChars)]
    /\ UNCHANGED <<saveVars, vault, settings, entries, dirtyPaths, now, evCount, setCount,
                   orchVars>>

NextSimilarity ==
    \/ ApiTitleSimilarity
    \/ ApiContentSimilarity

SpecSimilarity == InitSimilarity /\ [][NextSimilarity]_vars

(***************************************************************************)
(* groupDuplicates called on any list of candidates                        *)
(***************************************************************************)
\* a vault whose first two documents share their normalized title
GroupVault ==
    [h \in Handles |->
        IF h = 1 THEN [path |-> PathAN, mtime |-> 1, alive |-> TRUE]
        ELSE IF h = 2 THEN [path |-> PathABN, mtime |-> 1, alive |-> TRUE]
        ELSE IF h = 3 THEN [path |-> PathAN1, mtime |-> 1, alive |-> TRUE]
        ELSE IF h = 4 THEN [path |-> PathAM, mtime |-> 1, alive |-> TRUE]
        ELSE NoFile]

\* any pair of documents, a document with itself included
AnyCandidates ==
    {[file1 |-> f, file2 |-> g, num |-> 1, den |-> 1] :
        f \in {h \in Handles : GroupVault[h].alive},
        g \in {h \in Handles : GroupVault[h].alive}}

CandidateLists == UNION {[1..n -> AnyCandidates] : n \in 0..MaxCandidates}

InitGroup ==
    /\ vault = GroupVault
    /\ settings = InitSettings
    /\ entries = [s \in Scopes |-> NoEntry]
    /\ dirtyPaths = {}
    /\ now = 0
    /\ last \in {[op |-> "candidates", candidates |-> cs] : cs \in CandidateLists}
    /\ evCount = 0
    /\ setCount = 0
    /\ scans = [id \in ScanIds |-> IdleScan]
    /\ scanControllers = [s \in Scopes |-> 0]
    /\ aborted = {}
    /\ view = InitView
    /\ persisted = [s \in Scopes |-> NoEntry]
    /\ dataJson = NoData
    /\ saves = NoSaves
    /\ loaded = TRUE
    /\ hist = InitHist
    /\ dismissedGroups = <<>>
    /\ dismissedSet = {}
    /\ frontmatter = [h \in Handles |-> NoValue]

\* the one call of the behaviour, on the candidates it starts with
ApiGroupDuplicates ==
    /\ last.op = "candidates"
    /\ last' = [op |-> "groupDuplicates", candidates |-> last.candidates,
                groups |-> groupDuplicates(last.candidates)]
    /\ UNCHANGED <<saveVars, vault, settings, entries, dirtyPaths, now, evCount, setCount,
                   orchVars>>

NextGroup == ApiGroupDuplicates

SpecGroup == InitGroup /\ [][NextGroup]_vars

(***************************************************************************)
(* The dismissal record driven call by call                                *)
(***************************************************************************)
\* the path lists of groups: distinct paths in any order
PathLists ==
    {l \in UNION {[1..n -> Paths] : n \in 1..MaxFiles} :
        \A i \in 1..Len(l), j \in 1..Len(l) : i # j => l[i] # l[j]}

\* loadSettings: the record an earlier session left in data.json, which
\* dismissGroup wrote sorted
LoadedDismissals == {<<>>} \cup {<<SortStrings(l)>> : l \in PathLists}

InitDismiss ==
    /\ vault = InitVault
    /\ settings = InitSettings
    /\ entries = [s \in Scopes |-> NoEntry]
    /\ dirtyPaths = {}
    /\ now = 0
    /\ last = NoCall
    /\ evCount = 0
    /\ setCount = 0
    /\ scans = [id \in ScanIds |-> IdleScan]
    /\ scanControllers = [s \in Scopes |-> 0]
    /\ aborted = {}
    /\ view = InitView
    /\ persisted = [s \in Scopes |-> NoEntry]
    /\ dataJson = NoData
    /\ saves = NoSaves
    /\ loaded = TRUE
    /\ dismissedGroups \in LoadedDismissals
    /\ dismissedSet = rebuildDismissalSet(dismissedGroups)
    /\ hist = [InitHist EXCEPT
                  !.dismissed = {Range(dismissedGroups[k]) :
                                    k \in 1..Len(dismissedGroups)}]
    /\ frontmatter = [h \in Handles |-> NoValue]

\* a query leaves the record as it is, so each behaviour asks one last
ApiDismissGroup(paths) ==
    /\ last.op # "isDismissed"
    /\ Len(dismissedGroups) < MaxDismissals
    /\ dismissedGroups' = dismissGroup(paths)
    /\ dismissedSet' = dismissGroupSet(paths)
    /\ hist' = [hist EXCEPT !.dismissed = @ \cup {Range(paths)}]
    /\ last' = [op |-> "dismissGroup", paths |-> paths]
    /\ UNCHANGED <<saveVars, vault, settings, entries, dirtyPaths, now, evCount, setCount,
                   scans, scanControllers, aborted, view, persisted, loaded,
                   frontmatter>>

ApiIsDismissed(paths) ==
    /\ last.op # "isDismissed"
    /\ last' = [op |-> "isDismissed", paths |-> paths, result |-> isDismissed(paths)]
    /\ UNCHANGED <<saveVars, vault, settings, entries, dirtyPaths, now, evCount, setCount,
                   scans, scanControllers, aborted, view, persisted, loaded,
                   hist, dismissVars, frontmatter>>

ApiClearDismissals ==
    /\ last.op # "isDismissed"
    /\ dismissedGroups # <<>>
    /\ dismissedGroups' = <<>>
    /\ dismissedSet' = {}
    /\ hist' = [hist EXCEPT !.dismissed = {}]
    /\ last' = [op |-> "clearDismissals"]
    /\ UNCHANGED <<saveVars, vault, settings, entries, dirtyPaths, now, evCount, setCount,
                   scans, scanControllers, aborted, view, persisted, loaded,
                   frontmatter>>

NextDismiss ==
    \/ \E l \in PathLists : ApiDismissGroup(l)
    \/ \E l \in PathLists : ApiIsDismissed(l)
    \/ ApiClearDismissals

SpecDismiss == InitDismiss /\ [][NextDismiss]_vars

(***************************************************************************)
(* The three writers of data.json                                          *)
(***************************************************************************)
\* (await loadData()) || {}
OrEmpty(data) == [data EXCEPT !.file = TRUE]

\* CacheManager.save: the object handed to saveData
saveCache(data) ==
    [OrEmpty(data) EXCEPT !.duplicateCache = [kind |-> "object", value |-> entries]]

\* saveSettings: the object handed to saveData
saveSettings(data) ==
    [OrEmpty(data) EXCEPT !.settings = [kind |-> "object", value |-> settings]]

\* saveDismissals: the object handed to saveData
saveDismissals(data) ==
    [OrEmpty(data) EXCEPT
        !.dismissedGroups = [kind |-> "array", value |-> dismissedGroups]]

\* the call of a save function: it runs up to its await of loadData
CallSave(writer) ==
    /\ \E id \in SaveIds : saves[id].pc = "idle"
    /\ LET id == CHOOSE i \in SaveIds :
                     saves[i].pc = "idle" /\ \A j \in 1..(i - 1) : saves[j].pc # "idle"
       IN saves' = [saves EXCEPT ![id] = [IdleSave EXCEPT !.pc = "loading",
                                                          !.writer = writer]]

\* the slider of the title threshold was moved: the handler sets the value and
\* calls saveSettings
SettingEdited(v) ==
    /\ v # settings.titleSimilarityThreshold
    /\ settings' = [settings EXCEPT !.titleSimilarityThreshold = v]
    /\ CallSave("settings")
    /\ UNCHANGED <<vault, entries, dirtyPaths, now, last, evCount, setCount,
                   scans, scanControllers, aborted, view, persisted, loaded, hist,
                   dismissVars, frontmatter, dataJson>>

\* dismissGroup: the record grows and saveDismissals is called
DismissGroup(paths) ==
    /\ Len(dismissedGroups) < MaxDismissals
    /\ dismissedGroups' = dismissGroup(paths)
    /\ dismissedSet' = dismissGroupSet(paths)
    /\ CallSave("dismissals")
    /\ UNCHANGED <<vault, settings, entries, dirtyPaths, now, last, evCount,
                   setCount, scans, scanControllers, aborted, view, persisted,
                   loaded, hist, frontmatter, dataJson>>

\* clearDismissals: the record is emptied and saveDismissals is called
ClearDismissals ==
    /\ dismissedGroups # <<>>
    /\ dismissedGroups' = <<>>
    /\ dismissedSet' = {}
    /\ CallSave("dismissals")
    /\ UNCHANGED <<vault, settings, entries, dirtyPaths, now, last, evCount,
                   setCount, scans, scanControllers, aborted, view, persisted,
                   loaded, hist, frontmatter, dataJson>>

\* a scan of the scope has returned its groups un-cancelled: put,
\* clearDirtyPathsForFolder and the call of CacheManager.save
StoreAndSave(folderPath) ==
    /\ now < MaxClock
    /\ LET files == collectMarkdownFiles(folderPath, settings.ignoredFolders)
           groups == groupDuplicates(
                         findTitleDuplicates(files, settings.titleSimilarityThreshold))
       IN entries' = [entries EXCEPT
                         ![folderPath] = putEntry(folderPath, files, groups, settings)]
    /\ dirtyPaths' = clearDirtyPathsForFolder(folderPath)
    /\ now' = now + 1
    /\ CallSave("cache")
    /\ UNCHANGED <<vault, settings, last, evCount, setCount, scans,
                   scanControllers, aborted, view, persisted, loaded, hist,
                   dismissVars, frontmatter, dataJson>>

\* loadData has answered the save call: the function puts its section into
\* what it read and hands the object to saveData
SaveLoaded(id) ==
    /\ saves[id].pc = "loading"
    /\ LET writer == saves[id].writer
       IN saves' = [saves EXCEPT ![id] =
              [pc |-> "writing", writer |-> writer,
               data |-> CASE writer = "cache" -> saveCache(dataJson)
                          [] writer = "settings" -> saveSettings(dataJson)
                          [] OTHER -> saveDismissals(dataJson)]]
    /\ UNCHANGED <<vault, settings, entries, dirtyPaths, now, last, evCount,
                   setCount, scans, scanControllers, aborted, view, persisted,
                   loaded, hist, dismissVars, frontmatter, dataJson>>

\* saveData has written the object of the save call
SaveWritten(id) ==
    /\ saves[id].pc = "writing"
    /\ dataJson' = saves[id].data
    /\ saves' = [saves EXCEPT ![id] = [pc |-> "done", writer |-> saves[id].writer,
                                       data |-> NoData]]
    /\ UNCHANGED <<vault, settings, entries, dirtyPaths, now, last, evCount,
                   setCount, scans, scanControllers, aborted, view, persisted,
                   loaded, hist, dismissVars, frontmatter>>

\* the session starts on what an earlier one left in data.json, or on nothing
InitSave ==
    /\ vault = InitVault
    /\ \E fresh \in BOOLEAN :
          /\ settings = IF fresh THEN DEFAULT_SETTINGS ELSE InitSettings
          /\ dataJson = IF fresh THEN NoData
                        ELSE [file |-> TRUE,
                              settings |-> [kind |-> "object", value |-> InitSettings],
                              dismissedGroups |-> [kind |-> "array", value |-> <<>>],
                              duplicateCache |-> [kind |-> "object",
                                                  value |-> NoEntries]]
    /\ entries = NoEntries
    /\ dirtyPaths = {}
    /\ now = 0
    /\ last = NoCall
    /\ evCount = 0
    /\ setCount = 0
    /\ scans = [id \in ScanIds |-> IdleScan]
    /\ scanControllers = [s \in Scopes |-> 0]
    /\ aborted = {}
    /\ view = InitView
    /\ persisted = NoEntries
    /\ saves = NoSaves
    /\ loaded = TRUE
    /\ hist = InitHist
    /\ dismissedGroups = <<>>
    /\ dismissedSet = {}
    /\ frontmatter = [h \in Handles |-> NoValue]

NextSave ==
    \/ \E v \in TitleThresholds : SettingEdited(v)
    \/ \E l \in {<<PathAN, PathABN>>, <<PathAN, PathAM>>} : DismissGroup(l)
    \/ ClearDismissals
    \/ \E s \in Scopes : StoreAndSave(s)
    \/ \E id \in SaveIds : SaveLoaded(id)
    \/ \E id \in SaveIds : SaveWritten(id)

SpecSave == InitSave /\ [][NextSave]_vars

(***************************************************************************)
(* Properties of the cache manager                                         *)
(***************************************************************************)
\* the member paths of each group, group by group
Membership(groups) ==
    [k \in 1..Len(groups) |-> {vault[f].path : f \in Range(groups[k].files)}]

\* the greatest modification time of the documents fs, 0 for none
GreatestMtime(fs) ==
    IF fs = <<>> THEN 0
    ELSE CHOOSE m \in {vault[f].mtime : f \in Range(fs)} :
            \A f \in Range(fs) : vault[f].mtime <= m

FingerprintMatches(entry, fs) ==
    Len(fs) = entry.fileCount /\ GreatestMtime(fs) = entry.maxMtime

\* the configuration values of the entry that differ from those of st
DifferingSettings(entry, st) ==
    {name \in {"title", "enable", "content", "chars"} :
        \/ name = "title" /\ entry.settings.titleThreshold # st.titleSimilarityThreshold
        \/ name = "enable" /\ entry.settings.enableContent # st.enableContentSimilarity
        \/ name = "content"
              /\ entry.settings.contentThreshold # st.contentSimilarityThreshold
        \/ name = "chars" /\ entry.settings.contentChars # st.contentCharsToAnalyze}

GetOnEntry == last.op = "get" /\ last.entry # NoEntry

\* get is called right after put with the same scope and files, the settings
\* being those of the put
GetRightAfterPut ==
    /\ last.op = "put" /\ last'.op = "get"
    /\ last'.scope = last.scope /\ last'.files = last.files
    /\ DifferingSettings(entries[last.scope], settings) = {}

\* a review was answered from the cache
ReviewHit == last.op = "get" /\ last.result.hit

\* C1: for one scope at most one scan that was not cancelled is in flight:
\* of two scans in flight for the same scope, the one requested earlier has
\* had its cancellation requested
C1_OneLiveScanPerScope ==
    \A a \in ScanIds, b \in ScanIds :
        (a < b /\ InFlight(a) /\ InFlight(b) /\ scans[a].scope = scans[b].scope)
            => a \in aborted

\* C2: when a scan in flight whose cancellation was requested resumes, it
\* returns no group and its orchestrator leaves without storing an entry,
\* clearing a dirty path, persisting anything or replacing what the pane
\* shows (its progress bar aside)
C2_CancelledScanNoEffect ==
    [][\A id \in ScanIds :
          (InFlight(id) /\ id \in aborted /\ scans'[id] # scans[id])
              => /\ scans'[id].pc = "done"
                 /\ scans'[id].returned = 0
                 /\ scans'[id].groups = <<>>
                 /\ entries' = entries
                 /\ dirtyPaths' = dirtyPaths
                 /\ persisted' = persisted
                 /\ [view' EXCEPT !.progress = view.progress] = view
                 /\ last' = last]_vars

\* a cancelled review scan has returned while the pane still shows its
\* scanning state, and the cache manager was never written
C2_Witness ==
    /\ \E id \in ScanIds : scans[id].pc = "done" /\ id \in aborted
    /\ now = 0
    /\ \A sc \in Scopes : entries[sc] = NoEntry /\ persisted[sc] = NoEntry
    /\ view.scanInProgress

\* C3: a dirty path recorded inside a scope after its entry was stored keeps
\* that entry from being returned until the scope is rebuilt or the entry
\* evicted, whatever scans of other scopes complete in between
C3_DirtyKeepsInvalidating ==
    ReviewHit => last.scope \notin hist.changedAfter

\* C4: a change inside a scope that arrived while the scan of the scope was
\* in flight keeps the entry that scan stored from being returned
C4_ChangeDuringScanEffective ==
    ReviewHit => last.scope \notin hist.builtDuring

\* C5: the configuration values recorded in a stored entry are those the scan
\* behind it used: the title threshold and the content flag it was called
\* with and, when it compared contents, the content threshold and length
C5_EntryRecordsUsedSettings ==
    \A sc \in Scopes :
        entries[sc] # NoEntry =>
            LET rec == entries[sc].settings
                used == hist.built[sc]
            IN /\ rec.titleThreshold = used.titleThreshold
               /\ rec.enableContent = used.refine
               /\ used.refined => /\ rec.contentThreshold = used.contentThreshold
                                  /\ rec.contentChars = used.maxChars

\* C6 as stated: put immediately followed by get of the same scope and files
\* returns groups with the membership of the stored ones, whatever the
\* dirty-path set holds
C6_RoundTripAnyDirty ==
    [][GetRightAfterPut
       => (last'.result.hit
           /\ Membership(last'.result.groups) = Membership(last.groups))]_vars

\* C6 amended: put immediately followed by get of the same scope and files
\* returns groups with the membership of the stored ones, provided no
\* recorded dirty path lies inside the scope
C6_RoundTrip ==
    [][(GetRightAfterPut /\ ~\E d \in dirtyPaths : IsDescendant(d, last.scope))
       => (last'.result.hit
           /\ Membership(last'.result.groups) = Membership(last.groups))]_vars

\* a get answered from an entry that holds a group, with a dirty path recorded
\* outside the scope
C6_Witness ==
    /\ GetOnEntry /\ last.result.hit
    /\ last.scope = FolderA
    /\ Len(last.result.groups) >= 1
    /\ dirtyPaths # {}

\* C7: a get that finds an entry one of whose four configuration values
\* differs from the current settings returns none
C7_SettingChangeInvalidates ==
    (GetOnEntry /\ DifferingSettings(last.entry, last.settings) # {}) => ~last.result.hit

\* a get refused only because contentChars was changed after the put
C7_Witness ==
    /\ GetOnEntry /\ ~last.result.hit
    /\ DifferingSettings(last.entry, last.settings) = {"chars"}
    /\ FingerprintMatches(last.entry, last.files)
    /\ dirtyPaths = {}

\* C8: a get that finds an entry while a descendant of the scope is recorded
\* dirty returns none, also when count, mtime and settings still match
C8_DirtyDescendantInvalidates ==
    (GetOnEntry /\ FingerprintMatches(last.entry, last.files)
                /\ DifferingSettings(last.entry, last.settings) = {}
                /\ \E d \in dirtyPaths : IsDescendant(d, last.scope))
        => ~last.result.hit

\* a get of the subtree refused with matching fingerprint and settings
C8_Witness ==
    /\ GetOnEntry /\ ~last.result.hit
    /\ last.scope = FolderA
    /\ FingerprintMatches(last.entry, last.files)
    /\ DifferingSettings(last.entry, last.settings) = {}
    /\ \E d \in dirtyPaths : IsDescendant(d, FolderA)

\* C9: a get that finds an entry returns it exactly when no dirty path lies
\* inside its scope (any path for the root, paths under "scope/" otherwise),
\* the file count and the greatest mtime match, and the four configuration
\* values equal the current ones
C9_IsValidExactly ==
    GetOnEntry =>
        (last.result.hit <=>
            /\ ~\E d \in dirtyPaths : IsDescendant(d, last.entry.folderPath)
            /\ Len(last.files) = last.entry.fileCount
            /\ GreatestMtime(last.files) = last.entry.maxMtime
            /\ DifferingSettings(last.entry, last.settings) = {})

\* a subtree entry returned although a path sharing the scope name as a
\* string prefix is dirty
C9_Witness ==
    /\ GetOnEntry /\ last.result.hit
    /\ last.scope = FolderA
    /\ PathABN \in dirtyPaths

\* C10: get removes the entry it finds invalid and no other, never changes
\* the dirty-path set, and leaves the map alone on a valid or missing entry
C10_GetFrame ==
    [][last'.op = "get" /\ last' # last =>
        /\ dirtyPaths' = dirtyPaths
        /\ \A s \in Scopes : s # last'.scope => entries'[s] = entries[s]
        /\ (last'.entry # NoEntry /\ ~last'.result.hit)
               => entries'[last'.scope] = NoEntry
        /\ (last'.entry = NoEntry \/ last'.result.hit) => entries' = entries]_vars

\* an invalid entry was evicted while the other scope's entry stayed
C10_Witness ==
    /\ GetOnEntry /\ ~last.result.hit
    /\ entries[last.scope] = NoEntry
    /\ \E s \in Scopes : s # last.scope /\ entries[s] # NoEntry

\* the stored paths of a group that are paths of live documents, in order
Resolvable(filePaths) ==
    SelectSeq(filePaths,
              LAMBDA q : \E h \in Handles : vault[h].alive /\ vault[h].path = q)

\* C11: every group a cache hit returns has at least two members, each a
\* live document; its members are the stored paths that still resolve, and
\* the groups returned are the stored ones with at least two such paths
C11_HitGroupsResolved ==
    (GetOnEntry /\ last.result.hit) =>
        LET got == last.result.groups
            kept == SelectSeq([k \in 1..Len(last.entry.groups) |->
                                  Resolvable(last.entry.groups[k].filePaths)],
                              LAMBDA l : Len(l) >= 2)
        IN /\ \A k \in 1..Len(got) :
                 /\ Len(got[k].files) >= 2
                 /\ \A f \in Range(got[k].files) : f \in Handles /\ vault[f].alive
           /\ [k \in 1..Len(got) |->
                  [j \in 1..Len(got[k].files) |-> vault[got[k].files[j]].path]] = kept

\* a hit that returned a group of two from three stored paths and dropped
\* another stored group altogether
C11_Witness ==
    /\ GetOnEntry /\ last.result.hit
    /\ Len(last.result.groups) = 1
    /\ Len(last.entry.groups) = 2
    /\ \E k \in 1..2 : Len(last.entry.groups[k].filePaths) = 3
                       /\ Len(Resolvable(last.entry.groups[k].filePaths)) = 2
    /\ \E k \in 1..2 : Len(Resolvable(last.entry.groups[k].filePaths)) < 2

\* a review hit whose stored groups hold one that was dismissed
HitOnDismissed ==
    /\ ReviewHit
    /\ view.resultFromCache
    /\ view.currentFolder = FolderDisplay(last.scope)
    /\ \E k \in 1..Len(last.result.groups) :
           Range(GroupPaths(last.result.groups[k])) \in hist.dismissed

C13_IsDismissedExactSet ==
    last.op = "isDismissed" => (last.result <=> Range(last.paths) \in hist.dismissed)

\* asked with the paths in an order other than the recorded one
C13_Witness ==
    /\ last.op = "isDismissed"
    /\ last.result
    /\ Len(dismissedGroups) = 1
    /\ dismissedGroups[1] # last.paths
    /\ Len(last.paths) >= 2

\* the exclusion metadata of the document a names the document b
Lists(a, b) ==
    /\ vault[a].alive /\ vault[b].alive
    /\ \E x \in Range(parseExclusionTargets(frontmatter[a])) :
           resolveLink(x) = vault[b].path

\* the pane shows the outcome of a pattern review
PatternShown(p) == view.currentFolder = PatternLabel(p)

\* the groups of the latest scan and those a pattern review left in the pane
OutputGroups ==
    (IF last.op = "scan" THEN Range(last.groups) ELSE {})
        \cup (IF \E p \in Patterns : PatternShown(p) THEN Range(view.groups) ELSE {})

\* C14: exclusion is bidirectional: when the metadata of a document lists
\* another, no candidate of any group of the output pairs the two, in either
\* order, whether or not the other lists the first
C14_ExclusionBidirectional ==
    \A g \in OutputGroups :
        \A k \in 1..Len(g.candidates) :
            /\ ~Lists(g.candidates[k].file1, g.candidates[k].file2)
            /\ ~Lists(g.candidates[k].file2, g.candidates[k].file1)

\* a scan in which a pair passed the title threshold and would pass the
\* content threshold, and only the later document of the pair lists the other
C14_Witness ==
    /\ last.op = "scan"
    /\ \E k \in 1..Len(last.titled) :
           LET c == last.titled[k]
           IN /\ Lists(c.file2, c.file1)
              /\ ~Lists(c.file1, c.file2)
              /\ RefineOne(c, settings.contentSimilarityThreshold,
                           settings.contentCharsToAnalyze).likelyDuplicate
    /\ last.groups # <<>>

\* C15: no group of a folder scan or of a pattern review holds two documents
\* of which one lists the other as an exclusion target
C15_ExcludedNeverGrouped ==
    \A g \in OutputGroups :
        \A i \in 1..Len(g.files), j \in 1..Len(g.files) :
            i # j => ~Lists(g.files[i], g.files[j])

\* the similarity of the titles of f and g reaches the threshold
PairReaches(f, g, titleThreshold) ==
    LET a == Range(WordsOf(f))
        b == Range(WordsOf(g))
    IN /\ a \cup b # {}
       /\ Cardinality(a \cap b) * 100 >= titleThreshold * Cardinality(a \cup b)

\* C16: a pattern review synthesizes the catch-all group of all matched
\* documents exactly when two or more documents matched and no pair of them
\* reaches the title threshold
C16_CatchAllIff ==
    \A p \in Patterns :
        PatternShown(p) =>
            LET matched == findByPattern(
                               collectMarkdownFiles(RootPath, settings.ignoredFolders), p)
            IN (view.groups = <<CatchAll(p, matched)>>)
                   <=> /\ Len(matched) >= 2
                       /\ \A i \in 1..Len(matched), j \in 1..Len(matched) :
                              i < j => ~PairReaches(matched[i], matched[j],
                                                    settings.titleSimilarityThreshold)

\* the step is a pattern review that changed the pane
PatternStep ==
    /\ view' # view
    /\ dismissedGroups' = dismissedGroups
    /\ \E p \in Patterns : view'.currentFolder = PatternLabel(p)

\* C17: a pattern review leaves the cache and the invalidation state as they
\* are: no cache call (no entry read, written or evicted), no dirty path
\* cleared, no scan controller registered or aborted, no scan started, and no
\* candidate of its groups carries a content score
C17_PatternReviewFrame ==
    [][PatternStep =>
          /\ UNCHANGED <<entries, dirtyPaths, last, now, persisted,
                         scanControllers, scans, aborted>>
          /\ \A k \in 1..Len(view'.groups) :
                 \A j \in 1..Len(view'.groups[k].candidates) :
                    "cnum" \notin DOMAIN view'.groups[k].candidates[j]
      ]_vars

\* a pattern result in the pane while an entry is stored, a path is dirty and
\* a scan is registered
C17_Witness ==
    /\ \E p \in Patterns : PatternShown(p)
    /\ view.groups # <<>>
    /\ \E s \in Scopes : entries[s] # NoEntry
    /\ dirtyPaths # {}
    /\ \E s \in Scopes : scanControllers[s] # 0

\* the pane after a review of the scope was answered from its stored entry:
\* the stored groups whose path set was not dismissed, marked as cached
ShowsStored(sc) ==
    /\ view'.currentFolder = FolderDisplay(sc)
    /\ view'.resultFromCache
    /\ ~view'.scanInProgress
    /\ [k \in 1..Len(view'.groups) |-> (GroupPaths(view.groups[k]))']
           = SelectSeq([k \in 1..Len(entries[sc].groups) |->
                           entries[sc].groups[k].filePaths],
                       LAMBDA l : Range(l) \notin hist.dismissed)

\* the review of the scope is answered from the cache and starts no scan
AnsweredFromCache(sc) ==
    /\ UNCHANGED <<entries, scans, scanControllers, aborted, dirtyPaths>>
    /\ ShowsStored(sc)

\* C18 as stated: once a scan of a scope has completed without cancellation
\* (its entry is stored), with no change event inside the scope and no change
\* of a similarity setting after the completion, a review of the scope is
\* answered from the cache
C18_HitAfterCompletion ==
    [][\A sc \in Scopes :
          (/\ entries[sc] # NoEntry
           /\ sc \notin hist.changedAfter
           /\ sc \notin hist.settingAfter
           /\ StartDuplicateReview(sc)) => AnsweredFromCache(sc)
      ]_vars

\* C18, amended: once a scan of a scope has completed without cancellation,
\* with no change event inside the scope since that scan started and no
\* change of a similarity setting since it completed, a review of the scope
\* starts no scan and shows the stored groups minus the dismissed ones
C18_HitAfterQuietScan ==
    [][\A sc \in Scopes :
          (/\ entries[sc] # NoEntry
           /\ sc \notin hist.changedAfter
           /\ sc \notin hist.builtDuring
           /\ sc \notin hist.settingAfter
           /\ StartDuplicateReview(sc)) => AnsweredFromCache(sc)
      ]_vars

\* a review answered from an entry whose scan began with a dirty path inside
\* its scope, the pane showing a stored group
C18_Witness ==
    /\ ReviewHit
    /\ view.resultFromCache
    /\ view.groups # <<>>
    /\ evCount > 0
    /\ last.scope \notin hist.changedAfter \cup hist.builtDuring \cup hist.settingAfter

\* the vault holds exactly Notes.md, Notes 1.md and Untitled.md
NotesVault == {vault[h].path : h \in {g \in Handles : vault[g].alive}} = NotePaths

\* the document of the vault at the path
FileAt(path) == CHOOSE h \in Handles : vault[h].alive /\ vault[h].path = path

\* the pair of Notes and Notes 1, in either order
IsNotesPair(c) == {c.file1, c.file2} = {FileAt(PathNotes), FileAt(PathNotes1)}

\* C19 as stated: for Notes.md, Notes 1.md and Untitled.md at threshold 0.8
\* findTitleDuplicates emits the pair (Notes, Notes 1) with similarity 1.0,
\* the two normalized titles being identical, and groupDuplicates puts the
\* two in one group and Untitled in none
C19_NotesPairedAtEighty ==
    (last.op = "findTitleDuplicates" /\ NotesVault /\ last.titleThreshold = 80) =>
        /\ NormTitle(FileAt(PathNotes)) = NormTitle(FileAt(PathNotes1))
        /\ \E k \in 1..Len(last.duplicates) :
               /\ IsNotesPair(last.duplicates[k])
               /\ last.duplicates[k].num = last.duplicates[k].den
        /\ \E k \in 1..Len(last.groups) :
               Range(last.groups[k].files) = {FileAt(PathNotes), FileAt(PathNotes1)}
        /\ \A k \in 1..Len(last.groups) :
               FileAt(PathUntitled) \notin Range(last.groups[k].files)

\* C19, amended: the normalized titles of Notes and Notes 1 are "notes" and
\* "notes 1", their similarity is 0.5; at threshold 0.8 findTitleDuplicates
\* emits no pair and groupDuplicates forms no group; at threshold 0.5 it
\* emits exactly the pair (Notes, Notes 1) with similarity 0.5 and
\* groupDuplicates puts the two in one group and Untitled in none
C19_NotesExample ==
    (last.op = "findTitleDuplicates" /\ NotesVault) =>
        /\ NormTitle(FileAt(PathNotes)) = <<"n","o","t","e","s">>
        /\ NormTitle(FileAt(PathNotes1)) = <<"n","o","t","e","s"," ","1">>
        /\ last.titleThreshold = 80 => last.duplicates = <<>> /\ last.groups = <<>>
        /\ last.titleThreshold = 50 =>
               /\ Len(last.duplicates) = 1
               /\ IsNotesPair(last.duplicates[1])
               /\ last.duplicates[1].num * 2 = last.duplicates[1].den
               /\ Len(last.groups) = 1
               /\ Range(last.groups[1].files)
                      = {FileAt(PathNotes), FileAt(PathNotes1)}

C19_Witness ==
    /\ last.op = "findTitleDuplicates"
    /\ NotesVault
    /\ last.titleThreshold = 50
    /\ last.groups # <<>>

\* C20: normalizeTitle is idempotent: normalizing a normalized title leaves it
\* as it is
C20_NormalizeIdempotent ==
    last.op = "normalizeTitle" => normalizeTitle(last.result) = last.result

\* a title of two index codes, of which the first pass strips one
C20_Witness ==
    /\ last.op = "normalizeTitle"
    /\ last.title = <<"A","B","1","A","B","1","x">>
    /\ last.result = <<"a","b","1","x">>

\* the fractions a and b are the same number
SameFraction(a, b) == a.num * b.den = b.num * a.den

\* the fraction lies in [0,1]
InUnitInterval(r) == r.den > 0 /\ 0 <= r.num /\ r.num <= r.den

\* C21: titleSimilarity and contentSimilarity are symmetric, for every
\* maxChars, and their result is a number within [0,1]
C21_SimilaritySymmetric ==
    /\ last.op = "titleSimilarity" =>
           /\ SameFraction(last.result, titleSimilarity(last.title2, last.title1))
           /\ InUnitInterval(last.result)
    /\ last.op = "contentSimilarity" =>
           /\ SameFraction(last.result,
                           contentSimilarity(last.content2, last.content1,
                                             last.maxChars))
           /\ InUnitInterval(last.result)

\* two titles of different size that share one word of two
C21_Witness ==
    /\ last.op = "titleSimilarity"
    /\ last.title1 = <<"x"," ">>
    /\ last.title2 = <<"x"," ","y"," ">>
    /\ last.result = [num |-> 1, den |-> 2]

\* C22: titleSimilarity(a, a) is 1 whenever the normalized a has a word, and
\* titleSimilarity(a, b) is 0 whenever either title normalizes to the empty
\* token set, both included
C22_SelfOneEmptyZero ==
    last.op = "titleSimilarity" =>
        /\ (last.title1 = last.title2 /\ normalizeTitle(last.title1) # <<>>)
               => (last.result.den > 0 /\ last.result.num = last.result.den)
        /\ (normalizeTitle(last.title1) = <<>> \/ normalizeTitle(last.title2) = <<>>)
               => (last.result.den > 0 /\ last.result.num = 0)

\* two different titles that both normalize to nothing
C22_Witness ==
    /\ last.op = "titleSimilarity"
    /\ last.title1 = <<"-">>
    /\ last.title2 = <<"A","B","1"," ",".","m","d">>
    /\ last.result.num = 0

\* the text ends in the extension, in either case
EndsWithMd(s) == StripMdExtension(s) # s

\* C23: normalizeTitle strips a trailing .md, then one leading index code
\* (two to four upper-case letters and digits, in brackets or not), then one
\* leading decimal number, then lower-cases, removes every character that is
\* neither a word character nor a blank, and collapses the blanks: the result
\* holds lower-case word characters in words one blank apart, the extension
\* makes no difference, and the titles of the documentation give the results
\* stated there
C23_NormalizeRules ==
    last.op = "normalizeTitle" =>
        /\ \A i \in 1..Len(last.result) :
               /\ last.result[i] \in Lower \cup Digit \cup {"_", " "}
               /\ last.result[i] = " " =>
                      /\ 1 < i /\ i < Len(last.result)
                      /\ last.result[i + 1] # " "
        /\ ~EndsWithMd(last.title) =>
               normalizeTitle(last.title \o <<".","m","d">>) = last.result
        /\ \A e \in NormalizeExamples :
               last.title = e.title => last.result = e.result

\* the first title of the documentation
C23_Witness ==
    /\ last.op = "normalizeTitle"
    /\ Len(last.title) = 24
    /\ last.title[1] = "E"
    /\ last.result = <<"m","e","e","t","i","n","g"," ","n","o","t","e","s">>

\* C24: whatever the candidates, no group returned by groupDuplicates holds a
\* path twice in its file list, and every group has a candidate
C24_GroupsDistinctFiles ==
    last.op = "groupDuplicates" =>
        \A k \in 1..Len(last.groups) :
            /\ \A i \in 1..Len(last.groups[k].files),
                  j \in 1..Len(last.groups[k].files) :
                   i # j => vault[last.groups[k].files[i]].path
                               # vault[last.groups[k].files[j]].path
            /\ Len(last.groups[k].candidates) >= 1

\* a pair given in both orders after a document paired with itself
C24_Witness ==
    /\ last.op = "groupDuplicates"
    /\ Len(last.candidates) = 3
    /\ last.candidates[1].file1 = last.candidates[1].file2
    /\ last.candidates[2].file1 = last.candidates[3].file2
    /\ last.candidates[2].file2 = last.candidates[3].file1
    /\ last.candidates[2].file1 # last.candidates[2].file2
    /\ Len(last.groups) = 1
    /\ Len(last.groups[1].files) = 2

\* every file of the group took part in a candidate of the group
TookPart(g) ==
    \A i \in 1..Len(g.files) :
        \E j \in 1..Len(g.candidates) :
            g.files[i] \in {g.candidates[j].file1, g.candidates[j].file2}

\* every file of the group took part in a candidate of the group whose file1
\* normalizes to the key of the group
TookPartUnderKey(g) ==
    \A i \in 1..Len(g.files) :
        \E j \in 1..Len(g.candidates) :
            /\ g.files[i] \in {g.candidates[j].file1, g.candidates[j].file2}
            /\ NormTitle(g.candidates[j].file1) = g.normalizedTitle

\* the groups of the pane and of the latest put satisfy it
ViewUnderKey == \A k \in 1..Len(view.groups) : TookPartUnderKey(view.groups[k])

PutUnderKey == \A k \in 1..Len(last.groups) : TookPartUnderKey(last.groups[k])

\* the step hands groups to the pane (a dismissal only takes one away)
HandsToPane ==
    /\ view' # view
    /\ ~view'.scanInProgress
    /\ dismissedGroups' = dismissedGroups

\* the step hands groups to the cache
HandsToCache == last' # last /\ last'.op = "put"

\* the pane shows a pattern review
PatternPane == \E p \in Patterns : view.currentFolder = PatternLabel(p)

\* C25: in every group handed onward by the orchestrator (fresh folder scan,
\* cache hit, background build, pattern review), every file of the group
\* took part in a candidate of the group whose file1 normalizes to the key
C25_FilesTookPart ==
    [][/\ HandsToPane => ViewUnderKey'
       /\ HandsToCache => PutUnderKey']_vars

\* C25, amended: in every group that groupDuplicates built and the
\* orchestrator hands onward (fresh folder scan, background build, the
\* titled groups of a pattern review), every file of the group took part in
\* a candidate of the group, and did so under the key when the group was
\* built; a group restored on a cache hit and the catch-all group of a
\* pattern review have no candidate
C25_BuiltGroupsTookPart ==
    [][/\ HandsToCache => PutUnderKey'
       /\ HandsToPane =>
              \A k \in 1..Len(view'.groups) :
                  IF view'.resultFromCache
                  THEN view'.groups[k].candidates = <<>>
                  ELSE IF PatternPane'
                  THEN \/ (TookPartUnderKey(view.groups[k]))'
                       \/ /\ view'.groups[k].candidates = <<>>
                          /\ Len(view'.groups) = 1
                  ELSE (TookPart(view.groups[k]))'
      ]_vars

\* the pane shows a group of a fresh scan, with its candidate
C25_Witness ==
    /\ view.groups # <<>>
    /\ ~view.resultFromCache
    /\ ~view.scanInProgress
    /\ ~PatternPane
    /\ view.groups[1].candidates # <<>>

\* C26: findTitleDuplicates emits each unordered pair of documents at most
\* once: never a pair in both orders, never a pair twice although the titles
\* share several words, never a document with itself
C26_PairsOnce ==
    last.op = "findTitleDuplicates" =>
        \A i \in 1..Len(last.duplicates) :
            /\ last.duplicates[i].file1 # last.duplicates[i].file2
            /\ \A j \in 1..Len(last.duplicates) :
                   i # j => {last.duplicates[i].file1, last.duplicates[i].file2}
                               # {last.duplicates[j].file1, last.duplicates[j].file2}

\* a pair whose titles share two words is among three pairs
C26_Witness ==
    /\ last.op = "findTitleDuplicates"
    /\ Len(last.duplicates) = 3
    /\ \E k \in 1..3 : last.duplicates[k].num = 2

\* the candidates of all the groups together
CandidateCount(groups) ==
    Cardinality({kj \in (1..Len(groups)) \X (1..MaxFiles * MaxFiles) :
                    kj[2] <= Len(groups[kj[1]].candidates)})

\* the candidate the pair became
ScoredAs(item, out) ==
    LET readable == vault[item.file1].alive /\ vault[item.file2].alive
    IN /\ out.file1 = item.file1 /\ out.file2 = item.file2
       /\ out.num = item.num /\ out.den = item.den
       /\ out.cdefined = readable
       /\ ~readable => ~out.likelyDuplicate

\* C27: a content read that fails is recovered where it happens.  When a
\* scan that is not cancelled resumes in refineWithContent it adds the
\* candidate of the iteration, with contentSimilarity undefined and
\* likelyDuplicate false when a document of the pair cannot be read and with
\* a score otherwise, whatever became of the candidates before it; after the
\* last candidate it returns as many candidates as it was given, the last
\* one among them, and the scan goes on to group and store them
C27_ReadFailureLocal ==
    [][\A id \in ScanIds :
          (scans[id].pc = "refine" /\ id \notin aborted /\ scans'[id] # scans[id]) =>
              LET sc == scans[id]
                  r == Len(sc.refined)
                  item == sc.candidates[r + 1]
              IN IF r + 1 < Len(sc.candidates)
                 THEN /\ scans'[id].pc = "refine"
                      /\ Len(scans'[id].refined) = r + 1
                      /\ SubSeq(scans'[id].refined, 1, r) = sc.refined
                      /\ ScoredAs(item, scans'[id].refined[r + 1])
                 ELSE /\ scans'[id].pc = "saving"
                      /\ CandidateCount(scans'[id].groups) = Len(sc.candidates)
                      /\ \E k \in 1..Len(scans'[id].groups) :
                             \E j \in 1..Len(scans'[id].groups[k].candidates) :
                                 ScoredAs(item, scans'[id].groups[k].candidates[j])
                      /\ last'.op = "put"
                      /\ last'.groups = scans'[id].groups
      ]_vars

\* the first pair could not be read, the second was scored
C27_Witness ==
    \E id \in ScanIds :
        /\ scans[id].pc = "refine"
        /\ Len(scans[id].refined) >= 2
        /\ ~scans[id].refined[1].cdefined
        /\ scans[id].refined[2].cdefined

\* the events of the stage among the events reported
OfStage(events, stage) == SelectSeq(events, LAMBDA e : e.stage = stage)

\* C28: a scan that is not cancelled has reported, when it returns, one
\* "comparing" event per file, current running from 1 to the number of files
\* and total being that number, and one "refining" event per candidate
\* refined, current running from 1 to their number; in every event of the
\* scan 0 <= current <= total
C28_ProgressPerItem ==
    [][\A id \in ScanIds :
          (scans[id].pc \in {"title", "refine"} /\ scans'[id].pc = "saving") =>
              LET n == Len(scans[id].files)
                  c == IF scans[id].pc = "refine" THEN Len(scans[id].candidates) ELSE 0
                  ev == scans'[id].events
              IN /\ OfStage(ev, "comparing")
                        = [k \in 1..n |-> Progress("comparing", k, n)]
                 /\ OfStage(ev, "refining")
                        = [k \in 1..c |-> Progress("refining", k, c)]
                 /\ \A k \in 1..Len(ev) :
                        0 <= ev[k].current /\ ev[k].current <= ev[k].total
      ]_vars

\* a scan of three files and three candidates has returned
C28_Witness ==
    \E id \in ScanIds :
        /\ scans[id].pc = "saving"
        /\ Len(OfStage(scans[id].events, "comparing")) = 3
        /\ Len(OfStage(scans[id].events, "refining")) = 3

\* the save call has handed its object to saveData and the write lands
Lands(id) == saves[id].pc = "writing" /\ saves'[id].pc = "done"

\* no save call is between its call and the end of its write
NoSaveInFlight == \A id \in SaveIds : saves[id].pc \in {"idle", "done"}

\* each section of data.json holds what the plugin holds in memory
SectionsInSync ==
    /\ dataJson.settings.value = settings
    /\ dataJson.dismissedGroups.value = dismissedGroups
    /\ dataJson.duplicateCache.value = entries

\* C29: the write of a settings save or of a dismissal save leaves the cache
\* section of data.json as it was, the write of a cache save leaves the
\* settings and the dismissal section as they were, and once no save call is
\* in flight every section equals the state in memory
C29_WritersKeepSections ==
    [][/\ \A id \in SaveIds :
              Lands(id) =>
                  IF saves[id].writer = "cache"
                  THEN /\ dataJson'.settings = dataJson.settings
                       /\ dataJson'.dismissedGroups = dataJson.dismissedGroups
                  ELSE dataJson'.duplicateCache = dataJson.duplicateCache
       /\ NoSaveInFlight' => SectionsInSync'
      ]_vars

\* the entry lacks a field that isValid or deserialize reads
Malformed(entry) ==
    entry # NoEntry /\ ~({"settings", "groups"} \subseteq DOMAIN entry)

\* C30: load does not raise, and leaves the cache empty when data.json is
\* missing, has no cache section or has one that is not a map; get on a loaded
\* entry that lacks its settings or its groups returns null and does not raise
C30_CorruptStateNotFatal ==
    /\ last.op = "load" =>
           /\ ~last.raised
           /\ (~dataJson.file \/ dataJson.duplicateCache.kind # "object")
                  => entries = NoEntries
    /\ (last.op = "get" /\ Malformed(last.entry)) =>
           ~last.raised /\ ~last.result.hit

\* the position of the file in the list
PositionIn(files, f) == CHOOSE k \in 1..Len(files) : files[k] = f

\* C31: findTitleDuplicates with the inverted index returns the pairs the
\* comparison of all pairs returns, each once, with the score titleSimilarity
\* gives the two basenames and with file1 the file earlier in the list, and
\* the result is sorted by falling score
C31_IndexEqualsAllPairs ==
    last.op = "findTitleDuplicates" =>
        LET naive == findTitleDuplicatesAllPairs(last.files, last.titleThreshold)
            found == last.duplicates
        IN /\ Len(found) = Len(naive)
           /\ Range(found) = Range(naive)
           /\ \A k \in 1..Len(found) :
                  /\ PositionIn(last.files, found[k].file1)
                         < PositionIn(last.files, found[k].file2)
                  /\ SameFraction([num |-> found[k].num, den |-> found[k].den],
                                  titleSimilarity(Basename(found[k].file1),
                                                  Basename(found[k].file2)))
           /\ \A k \in 1..(Len(found) - 1) : ~SimLess(found[k], found[k + 1])

\* three documents, every two of them a pair: the best pair comes first
\* although it was found last
C31_Witness ==
    /\ last.op = "findTitleDuplicates"
    /\ Len(last.files) = 3
    /\ Len(last.duplicates) = 3
    /\ SimLess(last.duplicates[2], last.duplicates[1])
    /\ last.duplicates[1].file1 = last.files[1]
    /\ last.duplicates[1].file2 = last.files[3]
    /\ last.duplicates[2].file2 = last.files[2]

\* the place of a stage in the order of the stages
StageRank(stage) ==
    CASE stage = "collecting" -> 1
      [] stage = "comparing" -> 2
      [] stage = "refining" -> 3
      [] stage = "grouping" -> 4
      [] stage = "done" -> 5

\* the events follow the order of the stages, and "done" comes last
StagesInOrder(events) ==
    /\ \A k \in 1..(Len(events) - 1) :
           StageRank(events[k].stage) <= StageRank(events[k + 1].stage)
    /\ \A k \in 1..Len(events) : events[k].stage = "done" => k = Len(events)

\* the events the step added to those of the scan
NewEvents(id) ==
    IF Len(scans'[id].events) > Len(scans[id].events)
    THEN SubSeq(scans'[id].events, Len(scans[id].events) + 1, Len(scans'[id].events))
    ELSE <<>>

TitleFields == {"file1", "file2", "num", "den"}

\* C33: content is read only by a scan started with the refine flag, and only
\* for a pair of its files whose titles reach the title threshold and of
\* which neither document lists the other as an exclusion target; a scan
\* started without the flag has read nothing when it returns and every
\* candidate of its groups is without contentSimilarity and likelyDuplicate
C33_ReadsOnlyForKeptPairs ==
    [][\A id \in ScanIds :
          /\ \A rd \in scans'[id].reads \ scans[id].reads :
                 /\ scans[id].refine
                 /\ rd[3] \in {rd[1], rd[2]}
                 /\ {rd[1], rd[2]} \subseteq Range(scans[id].files)
                 /\ PairReaches(rd[1], rd[2], scans[id].titleThreshold)
                 /\ ~Lists(rd[1], rd[2])
                 /\ ~Lists(rd[2], rd[1])
          /\ (InFlight(id) /\ ~scans[id].refine /\ scans'[id].pc = "saving") =>
                 /\ scans'[id].reads = {}
                 /\ \A k \in 1..Len(scans'[id].groups) :
                        \A j \in 1..Len(scans'[id].groups[k].candidates) :
                            DOMAIN scans'[id].groups[k].candidates[j] = TitleFields
      ]_vars

\* a scan with the refine flag has read the content of a pair and has left
\* unread a pair that reached the title threshold and is excluded
C33_Witness ==
    \E id \in ScanIds :
        /\ scans[id].pc = "saving"
        /\ scans[id].reads # {}
        /\ last.op = "put"
        /\ \E f \in Range(last.files), g \in Range(last.files) :
               /\ f # g
               /\ PairReaches(f, g, settings.titleSimilarityThreshold)
               /\ Lists(f, g)
               /\ \A rd \in scans[id].reads : {rd[1], rd[2]} # {f, g}

\* C35: once onunload has run, every scan in flight has had its cancellation
\* requested, and no step after it stores a cache entry, persists the cache
\* or changes what the pane shows
C35_UnloadAbortsAll ==
    /\ [](~loaded => \A id \in ScanIds : InFlight(id) => id \in aborted)
    /\ [][~loaded => /\ entries' = entries
                     /\ persisted' = persisted
                     /\ [view' EXCEPT !.progress = view.progress] = view]_vars

\* C34: when a scan whose cancellation was requested resumes, it ends the
\* unit of work it was in (the progress event of the file it had compared, or
\* the reads, the score and the progress event of the candidate it was
\* refining), begins no other unit and returns nothing; and every scan in
\* flight returns in the end
C34_CooperativeCancel ==
    /\ [][\A id \in ScanIds :
             (InFlight(id) /\ id \in aborted /\ scans'[id] # scans[id]) =>
                 LET sc == scans[id]
                     r == Len(sc.refined)
                 IN /\ scans'[id].pc = "done"
                    /\ scans'[id].returned = 0
                    /\ IF sc.pc = "title"
                       THEN /\ NewEvents(id) = <<Progress("comparing", sc.i, Len(sc.files))>>
                            /\ Len(OfStage(scans'[id].events, "comparing")) = sc.i
                            /\ scans'[id].reads = {}
                       ELSE /\ NewEvents(id) =
                                   <<Progress("refining", r + 1, Len(sc.candidates))>>
                            /\ \A rd \in scans'[id].reads \ sc.reads :
                                   <<rd[1], rd[2]>> = <<sc.candidates[r + 1].file1,
                                                        sc.candidates[r + 1].file2>>
       ]_vars
    /\ \A id \in ScanIds : InFlight(id) ~> ~InFlight(id)

\* a scan cancelled while it compared titles and a scan cancelled while it
\* refined, after one candidate of several, have both returned
C34_Witness ==
    \E a \in ScanIds, b \in ScanIds :
        /\ {a, b} \subseteq aborted
        /\ scans[a].pc = "done" /\ scans[b].pc = "done"
        /\ scans[a].events[Len(scans[a].events)].stage = "comparing"
        /\ Len(OfStage(scans[a].events, "comparing")) < 3
        /\ scans[b].events[Len(scans[b].events)] = Progress("refining", 1, 3)

\* C36: a step of a background cache build (its start, a progress event, its
\* completion) leaves the pane as it is when the pane does not show the
\* folder being built
C36_BackgroundBuildFrame ==
    [][\A id \in ScanIds :
          LET build == IF scans[id].pc = "idle" THEN scans'[id] ELSE scans[id]
          IN (/\ scans'[id] # scans[id]
              /\ build.kind = "background"
              /\ view.currentFolder # FolderDisplay(build.scope))
                 => view' = view
      ]_vars

\* the scan was superseded: before unload, only a newer request for the same
\* scope requests the cancellation of a scan
Superseded(id) == loaded /\ id \in aborted

\* C38: when a scan of startDuplicateReview that was superseded resumes, the
\* progress bar of the pane stays as it was
C38_StaleProgressIgnored ==
    [][\A id \in ScanIds :
          (/\ InFlight(id)
           /\ scans[id].kind = "review"
           /\ Superseded(id)
           /\ scans'[id] # scans[id])
              => view'.progress = view.progress
      ]_vars

\* C39: whenever the pane shows groups, currentGroupIndex is the position of
\* one of them, and neither nextGroup nor previousGroup has read a group that
\* is not there
C39_IndexInRange ==
    /\ view.groups # <<>> =>
           view.currentGroupIndex \in 0..(Len(view.groups) - 1)
    /\ last.op \in {"nextGroup", "previousGroup"} => ~last.raised

\* previousGroup has read a group that is not there
PreviousGroupRaised == last.op = "previousGroup" /\ last.raised

\* the string leaves of a parsed value
RECURSIVE StringLeaves(_)
StringLeaves(value) ==
    IF value.kind = "string" THEN {value.text}
    ELSE IF value.kind = "array"
         THEN UNION {StringLeaves(value.items[k]) : k \in 1..Len(value.items)}
         ELSE {}

\* a string, or a list of such values
RECURSIVE WellShaped(_)
WellShaped(value) ==
    \/ value.kind = "string"
    \/ /\ value.kind = "array"
       /\ \A k \in 1..Len(value.items) : WellShaped(value.items[k])

\* the documents the metadata of f names, by its own string leaves alone
ExclusionsOf(f) ==
    {resolveLink(CleanTarget(t)) :
        t \in {x \in StringLeaves(frontmatter[f]) : CleanTarget(x) # <<>>}} \ {NoPath}

\* C37 as stated: a document whose value is neither a string nor a nested
\* list of strings has no entry in the exclusion map
C37_UnexpectedShapeNoExclusions ==
    last.op = "buildExclusionMap" =>
        \A f \in Range(last.files) :
            ~WellShaped(frontmatter[f]) => vault[f].path \notin DOMAIN last.map

\* C37, amended: buildExclusionMap returns for every metadata; the entry of a
\* document holds the documents its own string leaves resolve to, whatever
\* the other documents carry and whatever else its value holds; a leaf that
\* resolves to no document adds nothing; a document without a string leaf
\* that resolves has no entry
C37_MapDegradesPerDocument ==
    last.op = "buildExclusionMap" =>
        /\ DOMAIN last.map =
               {vault[f].path : f \in {g \in Range(last.files) : ExclusionsOf(g) # {}}}
        /\ \A f \in Range(last.files) :
               /\ vault[f].path \in DOMAIN last.map =>
                      /\ last.map[vault[f].path] = ExclusionsOf(f)
                      /\ \A p \in last.map[vault[f].path] :
                             \E h \in Handles : vault[h].alive /\ vault[h].path = p
               /\ StringLeaves(frontmatter[f]) = {} =>
                      vault[f].path \notin DOMAIN last.map

\* one document carries a number, another a list of a name nothing has and a
\* path that resolves: the second has its entry
C37_Witness ==
    /\ last.op = "buildExclusionMap"
    /\ \E f \in Range(last.files), g \in Range(last.files) :
           /\ frontmatter[f] = NumberValue
           /\ \E t \in StringLeaves(frontmatter[g]) : resolveLink(CleanTarget(t)) = NoPath
           /\ vault[g].path \in DOMAIN last.map

\* the groups as a set: the key of each with the paths of its members
GroupSet(groups) ==
    {[normalizedTitle |-> groups[k].normalizedTitle,
      paths |-> {vault[f].path : f \in Range(groups[k].files)}] :
        k \in 1..Len(groups)}

\* the candidates scanForDuplicates holds after the title pass and the
\* exclusion filter, from the documents and the title threshold of a scan
TitleCandidates(sc) ==
    filterExcludedCandidates(findTitleDuplicates(sc.files, sc.titleThreshold),
                             buildExclusionMap(sc.files))

\* the pair of documents of each candidate
PairsOf(candidates) ==
    {<<candidates[k].file1, candidates[k].file2>> : k \in 1..Len(candidates)}

\* the pairs of the candidates of all groups
AllPairs(groups) == UNION {PairsOf(groups[k].candidates) : k \in 1..Len(groups)}

\* C40: refinement never changes which groups a scan returns nor their
\* members: the candidates that enter refinement are the candidates a scan
\* without refinement groups, a scan without refinement returns the groups
\* of these candidates, and a scan that refined returns groups with the same
\* keys and the same member paths as the groups of the candidates it
\* refined, under every content threshold and every failed read
C40_RefineKeepsMembership ==
    [][\A id \in ScanIds :
          /\ (scans[id].pc = "title" /\ scans'[id].pc = "refine") =>
                 scans'[id].candidates = TitleCandidates(scans[id])
          /\ (scans[id].pc = "title" /\ scans'[id].pc = "saving") =>
                 GroupSet(scans'[id].groups)
                     = GroupSet(groupDuplicates(TitleCandidates(scans[id])))
          /\ (scans[id].pc = "refine" /\ scans'[id].pc = "saving") =>
                 /\ GroupSet(scans'[id].groups)
                        = GroupSet(groupDuplicates(scans[id].candidates))
                 /\ AllPairs(scans'[id].groups) = PairsOf(scans[id].candidates)
      ]_vars

\* a scan that refined has returned a group that holds a candidate whose
\* read failed and a candidate that was read and is not a likely duplicate
C40_Witness ==
    \E id \in ScanIds :
        /\ scans[id].pc = "saving"
        /\ \E k \in 1..Len(scans[id].groups) :
               LET cs == scans[id].groups[k].candidates
               IN \E i \in 1..Len(cs), j \in 1..Len(cs) :
                      /\ "likelyDuplicate" \in DOMAIN cs[i]
                      /\ ~cs[i].cdefined
                      /\ cs[j].cdefined
                      /\ ~cs[j].likelyDuplicate

====
